---- MODULE Spec2Model ----
(***************************************************************************)
(* The recipe parser of recipes/src/parse.rs, driven by the Editor of      *)
(* web/src/components/recipe.rs.  The input text is a sequence of          *)
(* one-character strings; a cursor is an index into it (1 = first          *)
(* character, Len(s)+1 = end of input).  Every grammar rule is an operator *)
(* from (text, cursor) to one of the parser's outcomes.                    *)
(***************************************************************************)
EXTENDS Integers, Sequences, FiniteSets, TLC

VARIABLES
    text,            \* Editor: the `text` signal bound to the textarea
    error_text,      \* Editor: the `error_text` signal shown in the dialog
    dialog_open,     \* Editor: whether the error dialog is shown
    parsed,          \* the last as_recipe call: its argument, the Result
                     \* variant of the recipe rule, and what it returned
    overflow_checks, \* the build: TRUE when integer overflow panics (debug),
                     \* FALSE when it wraps (release)
    family,          \* which kind of document the user is typing
    stage,           \* how many pieces of it have been typed
    storage,         \* LocalStore: the browser's Storage object
    last_call,       \* LocalStore, HttpStore: the last call made, with its
                     \* argument, the storage before it and its result
    sessions,        \* server: the sessions in the session store
    served,          \* server: the last request served, with what the
                     \* handler was given, its answer and the store it used
    dirty,           \* Editor: the `dirty` signal
    in_flight,       \* Editor: the save requests sent and not yet answered,
                     \* each with the text it carries
    recipes,         \* application state: the recipe held under the id
    committed,       \* Editor: the text as of the last change event
    edited,          \* Editor: the textarea was edited since that event
    load_pending,    \* Editor: the initial load has not ended yet
    last_saved,      \* the text of the last save request that succeeded
    save_log         \* Editor: the last step of the save, with the
                     \* signals before it

editorVars == <<text, error_text, dialog_open, parsed, overflow_checks, family, stage>>

storeVars == <<storage, last_call>>

serverVars == <<sessions, served>>

saveVars == <<dirty, in_flight, recipes, committed, edited, load_pending, last_saved, save_log>>

otherThanEditor == <<storeVars, serverVars, saveVars>>

otherThanStore == <<editorVars, serverVars, saveVars>>

otherThanServer == <<editorVars, storeVars, saveVars>>

otherThanEditorAndSave == <<storeVars, serverVars>>

vars == <<editorVars, storeVars, serverVars, saveVars>>

----------------------------------------------------------------------------
(* Outcomes of a rule.  "Panic" is an uncaught fault (unwrap, overflow,    *)
(* division by zero): it is no Result variant and unwinds through every    *)
(* combinator.                                                             *)

Complete(p, v) == [k |-> "Complete", p |-> p, v |-> v]

Fail(p, msg) == [k |-> "Fail", p |-> p, v |-> msg]

Incomplete(p) == [k |-> "Incomplete", p |-> p, v |-> <<>>]

Panic(p, msg) == [k |-> "Panic", p |-> p, v |-> msg]

IsComplete(r) == r.k = "Complete"

None == <<>>

Some(v) == <<v>>

----------------------------------------------------------------------------
(* Combinators, as parse.rs uses them.  A rule's outcome is bound to a     *)
(* name by ranging over the one-element set that holds it:                 *)
(* Only({ e : v \in {r} }) is e with v standing for the outcome r.         *)

Only(S) == CHOOSE out \in S : TRUE

\* text_token!(tok): every character of tok, in order; Fail otherwise,
\* also when the input ends first.
text_token(s, p, tok) ==
    IF /\ p + Len(tok) - 1 <= Len(s)
       /\ \A i \in 1..Len(tok) : s[p + i - 1] = tok[i]
    THEN Complete(p + Len(tok), tok)
    ELSE Fail(p, "Expected token")

\* eoi: matches only at the end of the input, consuming nothing.
eoi(s, p) == IF p > Len(s) THEN Complete(p, <<>>) ELSE Fail(p, "Expected End Of Input")

\* optional!(rule): Fail becomes Complete(None) at the original cursor;
\* every other outcome passes through.
optional(r, p) ==
    Only({ IF v.k = "Complete" THEN Complete(v.p, Some(v.v))
           ELSE IF v.k = "Fail" THEN Complete(p, None)
           ELSE v : v \in {r} })

\* A must! that commits to nothing: the rule's outcome as it is, a Fail
\* left a Fail.
must_keeps_fail(r) == r

\* must!(rule): Fail becomes Abort, with the same position and reason.
must(r) ==
    Only({ IF v.k = "Fail" THEN [v EXCEPT !.k = "Abort"] ELSE v : v \in {r} })

\* trap!(rule): Abort becomes Fail.
trap(r) ==
    Only({ IF v.k = "Abort" THEN [v EXCEPT !.k = "Fail"] ELSE v : v \in {r} })

\* not!(rule): succeeds, consuming nothing, exactly when the trapped rule Fails.
not(r, p) ==
    Only({ IF t.k = "Complete" THEN Fail(p, "Matched on input when we shouldn't have.")
           ELSE IF t.k = "Fail" THEN Complete(p, <<>>)
           ELSE t : t \in {trap(r)} })

\* peek!(rule): the rule's outcome, with the cursor put back on success.
peek(r, p) ==
    Only({ IF v.k = "Complete" THEN Complete(p, v.v) ELSE v : v \in {r} })

\* discard!(rule): the rule's outcome with its value dropped.
discard(r) ==
    Only({ IF v.k = "Complete" THEN Complete(v.p, <<>>) ELSE v : v \in {r} })

\* either!(a, b): a unless it Fails, then b.
either(a, b) ==
    Only({ IF v.k # "Fail" THEN v ELSE b : v \in {a} })

\* until!(term): the first cursor at or after p where term matches; the
\* text before it is the value and term is not consumed.  Incomplete when
\* the input ends first.  T[q] is the outcome of term at cursor q, for q
\* from p up to the end of the input; the scan stops at the first cursor
\* where term matches or aborts.
until_end(T, s, p) ==
    Only({ IF stops = {} THEN Incomplete(Len(s) + 1) ELSE
      Only({
        Only({ IF t.k = "Complete" THEN Complete(q, <<>>) ELSE t
               : t \in {T[q]} })
        : q \in {CHOOSE first \in stops : \A o \in stops : first <= o} })
      : stops \in {{q \in DOMAIN T : T[q].k \in {"Complete", "Abort", "Panic"}}} })

\* An until! for which the end of the input is a Fail and not an Incomplete.
until_fails_at_end(T, s, p) ==
    Only({ IF e.k = "Complete" THEN Complete(e.p, SubSeq(s, p, e.p - 1))
           ELSE IF e.k = "Incomplete" THEN Fail(e.p, "Expected token")
           ELSE e
           : e \in {until_end(T, s, p)} })

until(T, s, p) ==
    Only({ IF e.k = "Complete" THEN Complete(e.p, SubSeq(s, p, e.p - 1)) ELSE e
           : e \in {until_end(T, s, p)} })

\* The cursors an until! scan started at p may try.
Cursors(s, p) == p..(Len(s) + 1)

\* A run that ends one character before the cursor it started at.
consume_all_end_back(class, s, p) == p - 1

\* consume_all!(rule) over a one-character rule: the longest run, possibly
\* empty, of characters from the class.
RECURSIVE consume_all_end(_, _, _)
consume_all_end(class, s, p) ==
    IF p <= Len(s) /\ s[p] \in class THEN consume_all_end(class, s, p + 1) ELSE p

consume_all(class, s, p) ==
    Only({ Complete(e, SubSeq(s, p, e - 1)) : e \in {consume_all_end(class, s, p)} })

----------------------------------------------------------------------------
(* Numeric grammar.                                                        *)

WsChars == {" ", "\t", "\r"}

Digits == {"0", "1", "2", "3", "4", "5", "6", "7", "8", "9"}

DigitVal(c) ==
    CASE c = "0" -> 0 [] c = "1" -> 1 [] c = "2" -> 2 [] c = "3" -> 3
      [] c = "4" -> 4 [] c = "5" -> 5 [] c = "6" -> 6 [] c = "7" -> 7
      [] c = "8" -> 8 [] c = "9" -> 9

\* ws: consume_all!(either!(" ", "\t", "\r"))
ws(s, p) == consume_all(WsChars, s, p)

\* ascii_digit
ascii_digit(s, p) ==
    IF p <= Len(s) /\ s[p] \in Digits THEN Complete(p + 1, s[p])
    ELSE Fail(p, "Expected ascii digit")

\* u32::MAX, 4294967295, as its decimal digits (wider than TLC's
\* integers, so the comparison with it is made on the digits).
U32MaxDigits == <<"4", "2", "9", "4", "9", "6", "7", "2", "9", "5">>

RECURSIVE StripZeros(_)
StripZeros(ds) ==
    IF Len(ds) > 1 /\ ds[1] = "0" THEN StripZeros(Tail(ds)) ELSE ds

RECURSIVE DigitsGreater(_, _)
DigitsGreater(a, b) ==
    IF a = <<>> THEN FALSE
    ELSE IF DigitVal(a[1]) # DigitVal(b[1]) THEN DigitVal(a[1]) > DigitVal(b[1])
    ELSE DigitsGreater(Tail(a), Tail(b))

\* Whether a digit string denotes a value above u32::MAX.
ExceedsU32(ds) ==
    \E t \in {StripZeros(ds)} :
        \/ Len(t) > Len(U32MaxDigits)
        \/ Len(t) = Len(U32MaxDigits) /\ DigitsGreater(t, U32MaxDigits)

\* The base-10 value of a digit string.
RECURSIVE DecimalValue(_)
DecimalValue(ds) ==
    IF ds = <<>> THEN 0
    ELSE 10 * DecimalValue(SubSeq(ds, 1, Len(ds) - 1)) + DigitVal(ds[Len(ds)])

\* num: peek!(ascii_digit), consume_all!(ascii_digit), u32::from_str(n).unwrap()
num(s, p) ==
    Only({ IF ~IsComplete(pk) THEN pk ELSE
      Only({ IF ExceedsU32(n.v) THEN Panic(p, "called Result::unwrap() on an Err value")
             ELSE Complete(n.p, DecimalValue(n.v))
             : n \in {consume_all(Digits, s, p)} })
      : pk \in {peek(ascii_digit(s, p), p)} })

RECURSIVE Gcd(_, _)
Gcd(a, b) == IF b = 0 THEN a ELSE Gcd(b, a % b)

\* Ratio::new(numer, denom): the fraction in lowest terms.
RatioNew(n, d) == Only({ [n |-> n \div g, d |-> d \div g] : g \in {Gcd(n, d)} })

\* ratio: num "/" num, then Ratio::new, which panics on a zero denominator.
ratio(s, p) ==
    Only({ IF ~IsComplete(numer) THEN numer ELSE
      Only({ IF ~IsComplete(sl) THEN sl ELSE
        Only({ IF ~IsComplete(denom) THEN denom
               ELSE IF denom.v = 0 THEN Panic(p, "denominator == 0")
               ELSE Complete(denom.p, RatioNew(numer.v, denom.v))
               : denom \in {num(s, sl.p)} })
        : sl \in {text_token(s, numer.p, <<"/">>)} })
      : numer \in {num(s, p)} })

\* Quantity::Whole(n), Quantity::Frac(r)
Whole(n) == [tag |-> "Whole", n |-> n, d |-> 1]

Frac(r) == [tag |-> "Frac", n |-> r.n, d |-> r.d]

\* Quantity::Whole(w) + Quantity::Frac(f): the exact sum.
QuantityAdd(w, f) == Frac(RatioNew(w.n * f.d + f.n, f.d))

\* quantity: either!(num ws ratio ws, ratio ws, num ws)
quantity_mixed(s, p) ==
    Only({ IF ~IsComplete(whole) THEN whole ELSE
      Only({ IF ~IsComplete(frac) THEN frac
             ELSE Complete(ws(s, frac.p).p, QuantityAdd(Whole(whole.v), Frac(frac.v)))
             : frac \in {ratio(s, ws(s, whole.p).p)} })
      : whole \in {num(s, p)} })

quantity_frac(s, p) ==
    Only({ IF ~IsComplete(frac) THEN frac
           ELSE Complete(ws(s, frac.p).p, Frac(frac.v))
           : frac \in {ratio(s, p)} })

quantity_whole(s, p) ==
    Only({ IF ~IsComplete(whole) THEN whole
           ELSE Complete(ws(s, whole.p).p, Whole(whole.v))
           : whole \in {num(s, p)} })

\* The alternatives of quantity in the other order: the bare integer
\* first, the mixed number last.
quantity_whole_first(s, p) ==
    either(quantity_whole(s, p), either(quantity_frac(s, p), quantity_mixed(s, p)))

quantity(s, p) ==
    either(quantity_mixed(s, p), either(quantity_frac(s, p), quantity_whole(s, p)))

----------------------------------------------------------------------------
(* Unit grammar.                                                           *)

\* The unit alternatives with every alias after its own prefixes: the
\* shorter spelling is tried before the longer one.
UnitTokensShortFirst ==
    << <<"t", "s", "p">>,
       <<"t", "s", "p", "s">>,
       <<"t", "b", "s", "p">>,
       <<"t", "b", "s", "p", "s">>,
       <<"f", "l", "o", "z">>,
       <<"m", "l">>,
       <<"l", "t", "r">>,
       <<"l", "b">>,
       <<"l", "b", "s">>,
       <<"o", "z">>,
       <<"c", "u", "p">>,
       <<"c", "u", "p", "s">>,
       <<"q", "r", "t">>,
       <<"q", "r", "t", "s">>,
       <<"q", "u", "a", "r", "t">>,
       <<"q", "u", "a", "r", "t", "s">>,
       <<"p", "i", "n", "t">>,
       <<"p", "i", "n", "t", "s">>,
       <<"p", "n", "t">>,
       <<"g", "a", "l">>,
       <<"g", "a", "l", "s">>,
       <<"c", "n", "t">>,
       <<"k", "g">>,
       <<"k", "i", "l", "o", "g", "r", "a", "m">>,
       <<"k", "i", "l", "o", "g", "r", "a", "m", "s">>,
       <<"g">>,
       <<"g", "r", "a", "m">>,
       <<"g", "r", "a", "m", "s">> >>

\* The alternatives of unit's either!, in source order.
UnitTokens ==
    << <<"t", "s", "p", "s">>,
       <<"t", "s", "p">>,
       <<"t", "b", "s", "p", "s">>,
       <<"t", "b", "s", "p">>,
       <<"f", "l", "o", "z">>,
       <<"m", "l">>,
       <<"l", "t", "r">>,
       <<"l", "b", "s">>,
       <<"l", "b">>,
       <<"o", "z">>,
       <<"c", "u", "p", "s">>,
       <<"c", "u", "p">>,
       <<"q", "r", "t", "s">>,
       <<"q", "r", "t">>,
       <<"q", "u", "a", "r", "t", "s">>,
       <<"q", "u", "a", "r", "t">>,
       <<"p", "i", "n", "t", "s">>,
       <<"p", "i", "n", "t">>,
       <<"p", "n", "t">>,
       <<"g", "a", "l", "s">>,
       <<"g", "a", "l">>,
       <<"c", "n", "t">>,
       <<"k", "i", "l", "o", "g", "r", "a", "m", "s">>,
       <<"k", "i", "l", "o", "g", "r", "a", "m">>,
       <<"k", "g">>,
       <<"g", "r", "a", "m", "s">>,
       <<"g", "r", "a", "m">>,
       <<"g">> >>

\* either!(text_token!(t1), text_token!(t2), ...): the first alternative,
\* in order, that matches at p.
either_token(tokens, s, p) ==
    Only({ IF hits = {} THEN Fail(p, "Expected token")
           ELSE text_token(s, p, tokens[CHOOSE i \in hits : \A j \in hits : i <= j])
           : hits \in {{i \in DOMAIN tokens : IsComplete(text_token(s, p, tokens[i]))}} })

\* str::to_lowercase, on ASCII letters.
LowerChar(c) ==
    CASE c = "A" -> "a" [] c = "B" -> "b" [] c = "C" -> "c" [] c = "D" -> "d"
      [] c = "E" -> "e" [] c = "F" -> "f" [] c = "G" -> "g" [] c = "H" -> "h"
      [] c = "I" -> "i" [] c = "J" -> "j" [] c = "K" -> "k" [] c = "L" -> "l"
      [] c = "M" -> "m" [] c = "N" -> "n" [] c = "O" -> "o" [] c = "P" -> "p"
      [] c = "Q" -> "q" [] c = "R" -> "r" [] c = "S" -> "s" [] c = "T" -> "t"
      [] c = "U" -> "u" [] c = "V" -> "v" [] c = "W" -> "w" [] c = "X" -> "x"
      [] c = "Y" -> "y" [] c = "Z" -> "z" [] OTHER -> c

to_lowercase(w) == [i \in 1..Len(w) |-> LowerChar(w[i])]

\* A to_singular that leaves every word as it is.
to_singular_keeps_plural(w) == w

\* Inflector::to_singular, on the regular plurals the grammar meets: a
\* final "s" that does not follow another "s" is dropped.
to_singular(w) ==
    IF /\ Len(w) >= 2
       /\ w[Len(w)] = "s"
       /\ w[Len(w) - 1] # "s"
    THEN SubSeq(w, 1, Len(w) - 1)
    ELSE w

\* str::trim: leading and trailing whitespace removed.
TrimChars == {" ", "\t", "\r", "\n"}

RECURSIVE trim_start(_)
trim_start(w) ==
    IF w # <<>> /\ w[1] \in TrimChars THEN trim_start(Tail(w)) ELSE w

RECURSIVE trim_end(_)
trim_end(w) ==
    IF w # <<>> /\ w[Len(w)] \in TrimChars
    THEN trim_end(SubSeq(w, 1, Len(w) - 1)) ELSE w

trim(w) == trim_end(trim_start(w))

\* unit: either!(tokens), ws, (u.to_lowercase().to_singular())
unit(s, p) ==
    Only({ IF ~IsComplete(u) THEN u
           ELSE Complete(ws(s, u.p).p, to_singular(to_lowercase(u.v)))
           : u \in {either_token(UnitTokens, s, p)} })

\* The optional unit of measure_parts: do_each!(ws, unit)
ws_unit(s, p) == unit(s, ws(s, p).p)

\* measure_parts: quantity, optional!(ws unit), ws
measure_parts(s, p) ==
    Only({ IF ~IsComplete(qty) THEN qty ELSE
      Only({ IF ~IsComplete(u) THEN u
             ELSE Complete(ws(s, u.p).p, <<qty.v, u.v>>)
             : u \in {optional(ws_unit(s, qty.p), qty.p)} })
      : qty \in {quantity(s, p)} })

\* Measure: Volume(..), Weight(..) or Count, each wrapping the quantity.
Tagged(kind, u, qty) == [kind |-> kind, unit |-> u, qty |-> qty]

\* The match of measure over the canonical unit; the last arm is its
\* unreachable!().
MeasureOf(u, qty) ==
    CASE u = <<"t", "b", "s", "p">> -> Tagged("Volume", "Tbsp", qty)
      [] u = <<"t", "s", "p">> -> Tagged("Volume", "Tsp", qty)
      [] u = <<"f", "l", "o", "z">> -> Tagged("Volume", "Floz", qty)
      [] u = <<"m", "l">> -> Tagged("Volume", "ML", qty)
      [] u = <<"l", "t", "r">> -> Tagged("Volume", "Ltr", qty)
      [] u = <<"l", "i", "t", "e", "r">> -> Tagged("Volume", "Ltr", qty)
      [] u = <<"c", "u", "p">> -> Tagged("Volume", "Cup", qty)
      [] u = <<"c", "p">> -> Tagged("Volume", "Cup", qty)
      [] u = <<"q", "r", "t">> -> Tagged("Volume", "Qrt", qty)
      [] u = <<"q", "u", "a", "r", "t">> -> Tagged("Volume", "Qrt", qty)
      [] u = <<"p", "i", "n", "t">> -> Tagged("Volume", "Pint", qty)
      [] u = <<"p", "n", "t">> -> Tagged("Volume", "Pint", qty)
      [] u = <<"g", "a", "l">> -> Tagged("Volume", "Gal", qty)
      [] u = <<"c", "n", "t">> -> Tagged("Count", "Count", qty)
      [] u = <<"c", "o", "u", "n", "t">> -> Tagged("Count", "Count", qty)
      [] u = <<"l", "b">> -> Tagged("Weight", "Pound", qty)
      [] u = <<"o", "z">> -> Tagged("Weight", "Oz", qty)
      [] u = <<"k", "g">> -> Tagged("Weight", "Kilogram", qty)
      [] u = <<"k", "i", "l", "o", "g", "r", "a", "m">> -> Tagged("Weight", "Kilogram", qty)
      [] u = <<"g">> -> Tagged("Weight", "Gram", qty)
      [] u = <<"g", "r", "a", "m">> -> Tagged("Weight", "Gram", qty)
      [] OTHER -> Tagged("Unreachable", "Unreachable", qty)

\* measure: the parts mapped to a Measure; Count when no unit was parsed.
measure(s, p) ==
    Only({ IF ~IsComplete(parts) THEN parts ELSE
      Only({ IF m.kind = "Unreachable"
             THEN Panic(p, "internal error: entered unreachable code")
             ELSE Complete(parts.p, m)
             : m \in {IF parts.v[2] = None THEN Tagged("Count", "Count", parts.v[1])
                      ELSE MeasureOf(parts.v[2][1], parts.v[1])} })
      : parts \in {measure_parts(s, p)} })

----------------------------------------------------------------------------
(* Ingredient lines.                                                       *)

newline(s, p) == text_token(s, p, <<"\n">>)

\* The terminator of ingredient_name: "\n", end of input or "(".
name_end(s, p) ==
    either(discard(newline(s, p)),
           either(eoi(s, p), discard(text_token(s, p, <<"(">>))))

\* ingredient_name: until!(terminator), (name.trim().to_singular())
ingredient_name(s, p) ==
    Only({ IF ~IsComplete(name) THEN name
           ELSE Complete(name.p, to_singular(trim(name.v)))
           : name \in {until([q \in Cursors(s, p) |-> name_end(s, q)], s, p)} })

close_paren(s, p) == text_token(s, p, <<")">>)

\* ingredient_modifier: "(", until!(")"), ")"
ingredient_modifier(s, p) ==
    Only({ IF ~IsComplete(open) THEN open ELSE
      Only({ IF ~IsComplete(modifier) THEN modifier ELSE
        Only({ IF ~IsComplete(close) THEN close
               ELSE Complete(close.p, modifier.v)
               : close \in {close_paren(s, modifier.p)} })
        : modifier \in {until([q \in Cursors(s, open.p) |-> close_paren(s, q)], s, open.p)} })
      : open \in {text_token(s, p, <<"(">>)} })

\* Ingredient::new(name, form, amt, category)
IngredientNew(name, form, amt) == [name |-> name, form |-> form, amt |-> amt]

\* ingredient: optional!(ws), measure, ingredient_name,
\* optional!(ingredient_modifier), optional!(ws)
ingredient(s, p) ==
    Only({ IF ~IsComplete(m) THEN m ELSE
      Only({ IF ~IsComplete(name) THEN name ELSE
        Only({ IF ~IsComplete(modifier) THEN modifier
               ELSE Complete(optional(ws(s, modifier.p), modifier.p).p,
                             IngredientNew(name.v, modifier.v, m.v))
               : modifier \in {optional(ingredient_modifier(s, name.p), name.p)} })
        : name \in {ingredient_name(s, m.p)} })
      : m \in {measure(s, optional(ws(s, p), p).p)} })

\* One round of separated!'s repetition: text_token!("\n") then ingredient.
sep_ingredient(s, p) ==
    Only({ IF ~IsComplete(sep) THEN sep ELSE ingredient(s, sep.p)
           : sep \in {newline(s, p)} })

\* The repetition of separated!: separator and ingredient applied until
\* they Fail; the ingredients so far are the result.  Abort and Incomplete
\* end the repetition with that outcome.
RECURSIVE repeat_ingredient(_, _, _)
repeat_ingredient(s, p, acc) ==
    Only({ IF r.k = "Complete" THEN repeat_ingredient(s, r.p, Append(acc, r.v))
           ELSE IF r.k = "Fail" THEN Complete(p, acc)
           ELSE r : r \in {sep_ingredient(s, p)} })

\* An ingredient list that may be empty: no ingredient at the cursor gives
\* the empty list instead of a Fail.
ingredient_list_or_none(s, p) ==
    Only({ IF head.k = "Fail" THEN Complete(p, <<>>)
           ELSE IF ~IsComplete(head) THEN head
           ELSE repeat_ingredient(s, head.p, <<head.v>>)
           : head \in {ingredient(s, p)} })

\* ingredient_list: separated!(text_token!("\n"), ingredient)
ingredient_list(s, p) ==
    Only({ IF ~IsComplete(head) THEN head
           ELSE repeat_ingredient(s, head.p, <<head.v>>)
           : head \in {ingredient(s, p)} })

----------------------------------------------------------------------------
(* Document grammar.                                                       *)

\* title: "title:", optional!(ws), until!("\n"), "\n"
title(s, p) ==
    Only({ IF ~IsComplete(hdr) THEN hdr ELSE
      Only({ IF ~IsComplete(t) THEN t ELSE
        Only({ IF ~IsComplete(nl) THEN nl ELSE Complete(nl.p, t.v)
               : nl \in {newline(s, t.p)} })
        : t \in {Only({ until([q \in Cursors(s, start) |-> newline(s, q)], s, start)
                        : start \in {optional(ws(s, hdr.p), hdr.p).p} })} })
      : hdr \in {text_token(s, p, <<"t", "i", "t", "l", "e", ":">>)} })

\* para_separator: "\n", optional!(ws), "\n"
para_separator(s, p) ==
    Only({ IF ~IsComplete(n1) THEN n1 ELSE
      Only({ IF ~IsComplete(n2) THEN n2 ELSE Complete(n2.p, <<>>)
             : n2 \in {newline(s, optional(ws(s, n1.p), n1.p).p)} })
      : n1 \in {newline(s, p)} })

\* either!(discard!(para_separator), eoi)
para_end(s, p) == either(discard(para_separator(s, p)), eoi(s, p))

\* description: until!(either!(discard!(para_separator), eoi))
description(s, p) == until([q \in Cursors(s, p) |-> para_end(s, q)], s, p)

\* The alternatives of step_time's either!, in source order.
TimeTokens ==
    << <<"m", "s">>,
       <<"s", "e", "c">>,
       <<"s">>,
       <<"m", "i", "n">>,
       <<"m">>,
       <<"h", "r", "s">>,
       <<"h", "r">>,
       <<"h">> >>

\* u32 multiplication a * b, computed on 16-bit halves of a: on overflow a
\* panic in a build with overflow checks, the product modulo 2^32 in a
\* build without.
HalfWord == 65536

U32Mul(a, b) ==
    LET lo == (a % HalfWord) * b
        hi == (a \div HalfWord) * b + (lo \div HalfWord) IN
    IF hi < HalfWord THEN [ok |-> TRUE, v |-> hi * HalfWord + (lo % HalfWord)]
    ELSE IF overflow_checks THEN [ok |-> FALSE, v |-> 0]
    ELSE [ok |-> TRUE, v |-> (hi % HalfWord) * HalfWord + (lo % HalfWord)]

\* The match of step_time over the time unit, in u32.
SecondsOf(u, cnt) ==
    CASE u = <<"m", "s">> -> [ok |-> TRUE, v |-> cnt \div 1000]
      [] u \in {<<"s">>, <<"s", "e", "c">>} -> [ok |-> TRUE, v |-> cnt]
      [] u \in {<<"m">>, <<"m", "i", "n">>} -> U32Mul(cnt, 60)
      [] u \in {<<"h">>, <<"h", "r">>, <<"h", "r", "s">>} ->
            Only({ IF m.ok THEN U32Mul(m.v, 60) ELSE m : m \in {U32Mul(cnt, 60)} })

\* The tokens the match of step_time has an arm for; any other token
\* takes its last arm, unreachable!().
TimeArms ==
    { <<"m", "s">>, <<"s">>, <<"s", "e", "c">>, <<"m">>, <<"m", "i", "n">>,
      <<"h">>, <<"h", "r">>, <<"h", "r", "s">> }

\* step_time: num, optional!(ws), either!(time tokens), Duration::from_secs
step_time(s, p) ==
    Only({ IF ~IsComplete(cnt) THEN cnt ELSE
      Only({ IF ~IsComplete(u) THEN u
             ELSE IF u.v \notin TimeArms
             THEN Panic(p, "internal error: entered unreachable code") ELSE
        Only({ IF secs.ok THEN Complete(u.p, secs.v)
               ELSE Panic(p, "attempt to multiply with overflow")
               : secs \in {SecondsOf(u.v, cnt.v)} })
        : u \in {either_token(TimeTokens, s, optional(ws(s, cnt.p), cnt.p).p)} })
      : cnt \in {num(s, p)} })

\* The optional duration of step_prefix: do_each!(ws, step_time)
ws_step_time(s, p) == step_time(s, ws(s, p).p)

\* A step header that ends at the first newline after `step:`, with no
\* blank line.
step_prefix_one_newline(s, p) ==
    Only({ IF ~IsComplete(hdr) THEN hdr ELSE
      Only({ IF ~IsComplete(dur) THEN dur ELSE
        Only({ IF ~IsComplete(sep) THEN sep ELSE Complete(sep.p, dur.v)
               : sep \in {newline(s, optional(ws(s, dur.p), dur.p).p)} })
        : dur \in {optional(ws_step_time(s, hdr.p), hdr.p)} })
      : hdr \in {text_token(s, p, <<"s", "t", "e", "p", ":">>)} })

\* step_prefix: "step:", optional!(ws step_time), optional!(ws), para_separator
step_prefix(s, p) ==
    Only({ IF ~IsComplete(hdr) THEN hdr ELSE
      Only({ IF ~IsComplete(dur) THEN dur ELSE
        Only({ IF ~IsComplete(sep) THEN sep ELSE Complete(sep.p, dur.v)
               : sep \in {para_separator(s, optional(ws(s, dur.p), dur.p).p)} })
        : dur \in {optional(ws_step_time(s, hdr.p), hdr.p)} })
      : hdr \in {text_token(s, p, <<"s", "t", "e", "p", ":">>)} })

\* Step::new(prep_time, instructions).with_ingredients(ingredients)
StepNew(dur, desc, ingredients) ==
    [prep_time |-> dur, instructions |-> desc, ingredients |-> ingredients]

\* step: step_prefix, must!(ingredient_list), para_separator, description,
\* either!(discard!(para_separator), eoi)
step(s, p) ==
    Only({ IF ~IsComplete(dur) THEN dur ELSE
      Only({ IF ~IsComplete(ingredients) THEN ingredients ELSE
        Only({ IF ~IsComplete(sep) THEN sep ELSE
          Only({ IF ~IsComplete(desc) THEN desc ELSE
            Only({ IF ~IsComplete(end) THEN end
                   ELSE Complete(end.p, StepNew(dur.v, desc.v, ingredients.v))
                   : end \in {para_end(s, desc.p)} })
            : desc \in {description(s, sep.p)} })
          : sep \in {para_separator(s, ingredients.p)} })
        : ingredients \in {must(ingredient_list(s, dur.p))} })
      : dur \in {step_prefix(s, p)} })

\* A repetition that takes no further step.
repeat_step_none(s, p, acc) == Complete(p, acc)

\* repeat!(step): the step rule applied until it Fails; the steps so far
\* are the result.  Abort and Incomplete end the repetition with that
\* outcome.
RECURSIVE repeat_step(_, _, _)
repeat_step(s, p, acc) ==
    Only({ IF r.k = "Complete" THEN repeat_step(s, r.p, Append(acc, r.v))
           ELSE IF r.k = "Fail" THEN Complete(p, acc)
           ELSE r : r \in {step(s, p)} })

\* step_list: must!(step), repeat!(step)
step_list(s, p) ==
    Only({ IF ~IsComplete(first_step) THEN first_step
           ELSE repeat_step(s, first_step.p, <<first_step.v>>)
           : first_step \in {must(step(s, p))} })

\* The optional description of recipe: peek!(not!(step_prefix)), description
guarded_description(s, p) ==
    Only({ IF ~IsComplete(look) THEN look ELSE description(s, p)
           : look \in {peek(not(step_prefix(s, p), p), p)} })

\* Recipe::new(title, desc).with_steps(steps)
RecipeNew(t, desc, steps) == [title |-> t, desc |-> desc, steps |-> steps]

\* recipe: title, optional!(para_separator), optional!(guarded description),
\* optional!(para_separator), step_list
recipe(s, p) ==
    Only({ IF ~IsComplete(t) THEN t ELSE
      Only({ IF ~IsComplete(sep1) THEN sep1 ELSE
        Only({ IF ~IsComplete(desc) THEN desc ELSE
          Only({ IF ~IsComplete(sep2) THEN sep2 ELSE
            Only({ IF ~IsComplete(steps) THEN steps
                   ELSE Complete(steps.p, RecipeNew(t.v, desc.v, steps.v))
                   : steps \in {step_list(s, sep2.p)} })
            : sep2 \in {optional(para_separator(s, desc.p), desc.p)} })
          : desc \in {optional(guarded_description(s, sep1.p), sep1.p)} })
        : sep1 \in {optional(para_separator(s, t.p), t.p)} })
      : t \in {title(s, p)} })

NoDetail == [reason |-> "", offset |-> 0]

NoRecipe == RecipeNew(<<>>, None, <<>>)

\* as_recipe: Abort and Fail share one arm and one message; Incomplete has
\* its own; a panic inside the rule is not caught.
as_recipe(i) ==
    Only({
        CASE r.k \in {"Abort", "Fail"} ->
                [status |-> "Err", msg |-> "Parse Failure: ",
                 detail |-> [reason |-> r.v, offset |-> r.p], recipe |-> NoRecipe]
          [] r.k = "Incomplete" ->
                [status |-> "Err", msg |-> "Incomplete recipe can not parse",
                 detail |-> NoDetail, recipe |-> NoRecipe]
          [] r.k = "Complete" ->
                [status |-> "Ok", msg |-> "", detail |-> NoDetail, recipe |-> r.v]
          [] r.k = "Panic" ->
                [status |-> "Panic", msg |-> r.v, detail |-> NoDetail, recipe |-> NoRecipe]
        : r \in {recipe(i, 1)} })

\* The Result variant the recipe rule ends with on input i.
recipe_outcome(i) == recipe(i, 1).k

----------------------------------------------------------------------------
(* The Editor: a textarea bound to `text`, a Check button that runs        *)
(* check_recipe_parses on it, and the error dialog.                        *)

NoError == [msg |-> "", detail |-> NoDetail]

NotCalled == [arg |-> <<>>, outcome |-> "None",
              result |-> [status |-> "None", msg |-> "", detail |-> NoDetail,
                          recipe |-> NoRecipe]]

\* One call of as_recipe: its argument, the variant the recipe rule ended
\* with, and the value returned.
Call(i) == [arg |-> i, outcome |-> recipe_outcome(i), result |-> as_recipe(i)]

\* check_recipe_parses: on Err the message is put in error_text and the
\* dialog is shown; on Ok error_text is emptied and the dialog closed.  A
\* panic ends the handler before either.
check_recipe_parses(c) ==
    CASE c.result.status = "Err" ->
            /\ error_text' = [msg |-> c.result.msg, detail |-> c.result.detail]
            /\ dialog_open' = TRUE
      [] c.result.status = "Ok" ->
            /\ error_text' = NoError
            /\ dialog_open' = FALSE
      [] OTHER -> UNCHANGED <<error_text, dialog_open>>

----------------------------------------------------------------------------
(* What the user types.  A document is typed piece by piece; the family    *)
(* says which pieces come in which order.                                  *)

\* A title line; one without its newline; one without the `title:` header.
TitleLines ==
    { <<"t", "i", "t", "l", "e", ":", " ", "T", "o", "a", "s", "t", "\n">>,
      <<"t", "i", "t", "l", "e", ":", " ", "T", "o", "a", "s", "t">>,
      <<"T", "o", "a", "s", "t", "\n">> }

\* What follows the title line: nothing, one more newline (a blank line),
\* two.
Gaps ==
    { <<>>,
      <<"\n">>,
      <<"\n", "\n">> }

\* The paragraph before the steps: none, free text, one that begins with
\* `step:`.
Paragraphs ==
    { <<>>,
      <<"A", "b", "o", "u", "t", " ", "i", "t", ".", "\n", "\n">>,
      <<"s", "t", "e", "p", ":", "\n", "1", " ", "c", "n", "t", " ", "b", "r", "e", "a", "d", "\n", "\n">> }

\* What ends the document: free text, a well-formed step, the same with a
\* final newline.
Closings ==
    { <<"T", "o", "a", "s", "t", " ", "i", "t", ".", "\n">>,
      <<"s", "t", "e", "p", ":", "\n", "\n", "1", " ", "c", "n", "t", " ", "b", "r", "e", "a", "d", "\n", "\n", "T", "o", "a", "s", "t", " ", "i", "t", ".">>,
      <<"s", "t", "e", "p", ":", "\n", "\n", "1", " ", "c", "n", "t", " ", "b", "r", "e", "a", "d", "\n", "\n", "T", "o", "a", "s", "t", " ", "i", "t", ".", "\n">> }

\* Steps as typed: two well-formed ones; a header followed by a line that
\* is no ingredient; a header followed by a blank line; an ingredient list
\* not followed by a blank line; a header not followed by a blank line; a
\* fraction over zero; a modifier whose parenthesis is never closed.
StepTexts ==
    << <<"s", "t", "e", "p", ":", "\n", "\n", "1", " ", "c", "n", "t", " ", "b", "r", "e", "a", "d", "\n", "\n", "T", "o", "a", "s", "t", " ", "i", "t", ".">>,
       <<"s", "t", "e", "p", ":", " ", "2", " ", "m", "i", "n", "\n", "\n", "1", " ", "c", "n", "t", " ", "b", "r", "e", "a", "d", "\n", "2", " ", "t", "b", "s", "p", "s", " ", "s", "u", "g", "a", "r", " ", "(", "f", "i", "n", "e", ")", "\n", "\n", "M", "i", "x", ".">>,
       <<"s", "t", "e", "p", ":", "\n", "\n", "b", "r", "e", "a", "d", "\n", "\n", "T", "o", "a", "s", "t", " ", "i", "t", ".">>,
       <<"s", "t", "e", "p", ":", "\n", "\n", "\n", "\n", "T", "o", "a", "s", "t", " ", "i", "t", ".">>,
       <<"s", "t", "e", "p", ":", "\n", "\n", "1", " ", "c", "n", "t", " ", "b", "r", "e", "a", "d", "\n", "T", "o", "a", "s", "t", " ", "i", "t", ".">>,
       <<"s", "t", "e", "p", ":", "\n", "1", " ", "c", "n", "t", " ", "b", "r", "e", "a", "d", "\n", "\n", "T", "o", "a", "s", "t", " ", "i", "t", ".">>,
       <<"s", "t", "e", "p", ":", "\n", "\n", "1", "/", "0", " ", "c", "u", "p", " ", "f", "l", "o", "u", "r", "\n", "\n", "M", "i", "x", ".">>,
       <<"s", "t", "e", "p", ":", "\n", "\n", "1", " ", "c", "n", "t", " ", "b", "r", "e", "a", "d", " ", "(", "f", "i", "n", "e", "\n", "\n", "T", "o", "a", "s", "t", " ", "i", "t", ".">> >>

\* The blank line typed between two steps.
BlankLine ==
    <<"\n", "\n">>

\* A title line followed by a paragraph separator.
GoodHead ==
    <<"t", "i", "t", "l", "e", ":", " ", "T", "o", "a", "s", "t", "\n", "\n", "\n">>

\* The step header literal.
StepHeader ==
    <<"s", "t", "e", "p", ":">>

\* The count of a duration, with the whitespace typed before it; the last
\* two are 2^32 / 60 rounded up and 2^32.
Counts ==
    { <<>>,
      <<" ", "2">>,
      <<" ", "1", "5", "0", "0">>,
      <<"2">>,
      <<" ", "7", "1", "5", "8", "2", "7", "8", "9">>,
      <<" ", "4", "2", "9", "4", "9", "6", "7", "2", "9", "6">> }

\* The whitespace between the count and the time unit.
TimeSpaces ==
    { <<>>,
      <<" ">> }

\* The time unit as typed.
TimeWords ==
    { <<>>,
      <<"m", "s">>,
      <<"s", "e", "c">>,
      <<"s">>,
      <<"m", "i", "n">>,
      <<"m">>,
      <<"h", "r", "s">>,
      <<"h", "r">>,
      <<"h">>,
      <<"x">> }

\* The rest of a step after its header line.
StepBody ==
    <<"\n", "\n", "1", " ", "c", "n", "t", " ", "b", "r", "e", "a", "d", "\n", "\n", "T", "o", "a", "s", "t", " ", "i", "t", ".">>

\* A complete step header.
OpenStep ==
    <<"s", "t", "e", "p", ":", "\n", "\n">>

\* The quantity of an ingredient line as typed.
QuantityTexts ==
    { <<"2">>,
      <<"1", "/", "2">>,
      <<"1", " ", "1", "/", "2">>,
      <<"2", " ", "2", "/", "4">>,
      <<"3", "\t", "1", "/", "3">> }

\* The word typed after the quantity: every unit alias, nothing, words that
\* are no unit (three of them begin with an alias), an alias in upper and
\* in mixed case, and the word "count".
UnitWords ==
    { <<" ", "t", "s", "p", "s">>,
      <<" ", "t", "s", "p">>,
      <<" ", "t", "b", "s", "p", "s">>,
      <<" ", "t", "b", "s", "p">>,
      <<" ", "f", "l", "o", "z">>,
      <<" ", "m", "l">>,
      <<" ", "l", "t", "r">>,
      <<" ", "l", "b", "s">>,
      <<" ", "l", "b">>,
      <<" ", "o", "z">>,
      <<" ", "c", "u", "p", "s">>,
      <<" ", "c", "u", "p">>,
      <<" ", "q", "r", "t", "s">>,
      <<" ", "q", "r", "t">>,
      <<" ", "q", "u", "a", "r", "t", "s">>,
      <<" ", "q", "u", "a", "r", "t">>,
      <<" ", "p", "i", "n", "t", "s">>,
      <<" ", "p", "i", "n", "t">>,
      <<" ", "p", "n", "t">>,
      <<" ", "g", "a", "l", "s">>,
      <<" ", "g", "a", "l">>,
      <<" ", "c", "n", "t">>,
      <<" ", "k", "i", "l", "o", "g", "r", "a", "m", "s">>,
      <<" ", "k", "i", "l", "o", "g", "r", "a", "m">>,
      <<" ", "k", "g">>,
      <<" ", "g", "r", "a", "m", "s">>,
      <<" ", "g", "r", "a", "m">>,
      <<" ", "g">>,
      <<>>,
      <<" ", "b", "i", "g">>,
      <<" ", "g", "a", "r", "l", "i", "c">>,
      <<" ", "c", "u", "p", "c", "a", "k", "e">>,
      <<" ", "g", "a", "l", "l", "o", "n">>,
      <<" ", "T", "B", "S", "P">>,
      <<" ", "T", "b", "s", "p">>,
      <<" ", "c", "o", "u", "n", "t">> }

\* The ingredient name as typed.
NameTexts ==
    { <<" ", "s", "u", "g", "a", "r">>,
      <<" ", "e", "g", "g", "s">> }

\* The rest of a step after its ingredient line.
StepRest ==
    <<"\n", "\n", "T", "o", "a", "s", "t", " ", "i", "t", ".">>

MaxSteps == 2

Families == {"head", "steps", "time", "ingredient"}

\* The pieces that may be typed next.
NextPieces(f, n) ==
    CASE f = "head" /\ n = 0 -> TitleLines
      [] f = "head" /\ n = 1 -> Gaps
      [] f = "head" /\ n = 2 -> Paragraphs
      [] f = "head" /\ n = 3 -> Closings
      [] f = "steps" /\ n = 0 -> {GoodHead}
      [] f = "steps" /\ n = 1 -> {StepTexts[i] : i \in DOMAIN StepTexts}
      [] f = "steps" /\ n > 1 /\ n <= MaxSteps ->
            {BlankLine \o StepTexts[i] : i \in DOMAIN StepTexts}
      [] f = "time" /\ n = 0 -> {GoodHead \o StepHeader}
      [] f = "time" /\ n = 1 -> Counts
      [] f = "time" /\ n = 2 -> TimeSpaces
      [] f = "time" /\ n = 3 -> TimeWords
      [] f = "time" /\ n = 4 -> {StepBody}
      [] f = "ingredient" /\ n = 0 -> {GoodHead \o OpenStep}
      [] f = "ingredient" /\ n = 1 -> QuantityTexts
      [] f = "ingredient" /\ n = 2 -> UnitWords
      [] f = "ingredient" /\ n = 3 -> NameTexts
      [] f = "ingredient" /\ n = 4 -> {StepRest}
      [] OTHER -> {}

----------------------------------------------------------------------------
(* The browser's local store (web/src/api.rs, LocalStore) and the fetch of *)
(* one recipe through it (HttpStore::fetch_recipe_text).  The Storage      *)
(* object is a function from the keys present to their values; keys and    *)
(* other strings are sequences of one-character strings.  A stored value   *)
(* is the JSON document serde_json wrote, kept as its tree: a string or an *)
(* array; "raw" is a text that is no JSON document.                        *)

JStr(s) == [t |-> "str", s |-> s, xs |-> <<>>]

JArr(xs) == [t |-> "arr", s |-> <<>>, xs |-> xs]

Raw(s) == [t |-> "raw", s |-> s, xs |-> <<>>]

\* RecipeEntry(id, text), a tuple struct of two strings.
RecipeEntry(id, txt) == [id |-> id, text |-> txt]

\* to_string(&entry): a tuple struct is written as the array of its fields.
to_string_entry(e) == JArr(<<JStr(e.id), JStr(e.text)>>)

\* to_string(&(i, cat)): a pair is written as a two-element array.
to_string_pair(i, cat) == JArr(<<JStr(i), JStr(cat)>>)

\* Whether a JSON value reads as a pair of strings, (String, String) or
\* RecipeEntry.
IsPairOfStrings(v) ==
    /\ v.t = "arr"
    /\ Len(v.xs) = 2
    /\ \A n \in 1..2 : v.xs[n].t = "str"

\* from_str::<RecipeEntry>(v)
from_str_entry(v) ==
    IF IsPairOfStrings(v)
    THEN [ok |-> TRUE, v |-> RecipeEntry(v.xs[1].s, v.xs[2].s)]
    ELSE [ok |-> FALSE, v |-> RecipeEntry(<<>>, <<>>)]

\* from_str::<Vec<(String, String)>>(v): an array whose every element is
\* a pair of strings.
from_str_pairs(v) ==
    IF v.t = "arr" /\ \A n \in 1..Len(v.xs) : IsPairOfStrings(v.xs[n])
    THEN [ok |-> TRUE, v |-> [n \in 1..Len(v.xs) |-> <<v.xs[n].xs[1].s, v.xs[n].xs[2].s>>]]
    ELSE [ok |-> FALSE, v |-> <<>>]

\* str::starts_with
starts_with(k, prefix) ==
    Len(k) >= Len(prefix) /\ SubSeq(k, 1, Len(prefix)) = prefix

RecipePrefix == <<"r", "e", "c", "i", "p", "e", ":">>

CategoryPrefix == <<"c", "a", "t", "e", "g", "o", "r", "y", ":">>

StaplesKey == <<"s", "t", "a", "p", "l", "e", "s">>

recipe_key(id) == RecipePrefix \o id

category_key(id) == CategoryPrefix \o id

\* Storage::set, Storage::delete, Storage::get
StorageSet(st, k, v) == [x \in DOMAIN st \cup {k} |-> IF x = k THEN v ELSE st[x]]

StorageDelete(st, k) == [x \in DOMAIN st \ {k} |-> st[x]]

StorageGet(st, k) == IF k \in DOMAIN st THEN Some(st[k]) ELSE None

\* get_storage_keys: every key of the Storage object.
get_storage_keys(st) == DOMAIN st

get_category_keys(st) == {k \in get_storage_keys(st) : starts_with(k, CategoryPrefix)}

get_recipe_keys(st) == {k \in get_storage_keys(st) : starts_with(k, RecipePrefix)}

\* A call that returned v, and one that panicked.
Returned(v) == [k |-> "Returned", v |-> v]

Panicked(msg) == [k |-> "Panicked", v |-> msg]

\* get_categories: the mappings read from every category key; a value that
\* does not read as a list of pairs panics (expect).  The order of the
\* result is the key order of the Storage object, which the model leaves
\* out: the mappings are given as the set of pairs.
get_categories(st) ==
    IF \E k \in get_category_keys(st) : ~from_str_pairs(st[k]).ok
    THEN Panicked("Failed to parse category key")
    ELSE Only({ IF mappings = {} THEN Returned(None) ELSE Returned(Some(mappings))
                : mappings \in {UNION { {from_str_pairs(st[k]).v[n] :
                                            n \in DOMAIN from_str_pairs(st[k]).v} :
                                          k \in get_category_keys(st) }} })

\* set_categories: each mapping written under its ingredient's key.
RECURSIVE set_categories_from(_, _, _)
set_categories_from(st, mappings, n) ==
    IF n > Len(mappings) THEN st
    ELSE set_categories_from(
             StorageSet(st, category_key(mappings[n][1]),
                        to_string_pair(mappings[n][1], mappings[n][2])),
             mappings, n + 1)

set_categories(st, mappings) ==
    IF mappings = None THEN st ELSE set_categories_from(st, mappings[1], 1)

\* get_recipe_entry: the entry stored under the id's key; a value that
\* does not read as an entry panics (expect).
get_recipe_entry(st, id) ==
    Only({ IF got = None THEN Returned(None)
           ELSE IF ~from_str_entry(got[1]).ok THEN Panicked("Failed to get recipe")
           ELSE Returned(Some(from_str_entry(got[1]).v))
           : got \in {StorageGet(st, recipe_key(id))} })

\* set_recipe_entry
set_recipe_entry(st, entry) ==
    StorageSet(st, recipe_key(entry.id), to_string_entry(entry))

\* delete_recipe_entry
delete_recipe_entry(st, id) == StorageDelete(st, recipe_key(id))

\* The second loop of set_all_recipes.
RECURSIVE set_entries_from(_, _, _)
set_entries_from(st, entries, n) ==
    IF n > Len(entries) THEN st
    ELSE set_entries_from(set_recipe_entry(st, entries[n]), entries, n + 1)

\* A set_all_recipes that deletes nothing before it writes the entries.
set_all_recipes_keeps(st, entries) == set_entries_from(st, entries, 1)

\* set_all_recipes: every recipe key deleted, then every entry written.
set_all_recipes(st, entries) ==
    set_entries_from([x \in DOMAIN st \ get_recipe_keys(st) |-> st[x]], entries, 1)

\* set_staples: the content is stored as it is.
set_staples(st, content) == StorageSet(st, StaplesKey, Raw(content))

\* What the request of fetch_recipe_text can end with: a JS error, another
\* reqwasm error, or an answer with a status and, for the body, what
\* json() and as_success() make of it.
Answers ==
    { [kind |-> "JsError", status |-> 0, body |-> "None"],
      [kind |-> "Error", status |-> 0, body |-> "None"],
      [kind |-> "Answer", status |-> 404, body |-> "None"],
      [kind |-> "Answer", status |-> 500, body |-> "None"],
      [kind |-> "Answer", status |-> 401, body |-> "None"],
      [kind |-> "Answer", status |-> 200, body |-> "Entry"],
      [kind |-> "Answer", status |-> 200, body |-> "NoEntry"],
      [kind |-> "Answer", status |-> 200, body |-> "NotSuccess"],
      [kind |-> "Answer", status |-> 200, body |-> "Unparseable"] }

\* fetch_recipe_text: what it returns and the storage it leaves, for the
\* answer a and, when the body holds an entry, the entry e.  The tests of
\* the status are in the order of the source.
fetch_recipe_text(st, id, a, e) ==
    IF a.kind = "JsError"
    THEN [result |-> Only({ IF r.k = "Panicked" THEN r ELSE [k |-> "Ok", v |-> r.v]
                            : r \in {get_recipe_entry(st, id)} }),
          storage |-> st]
    ELSE IF a.kind = "Error"
    THEN [result |-> [k |-> "Err", v |-> "request"], storage |-> st]
    ELSE IF a.status # 200
    THEN [result |-> [k |-> "Err", v |-> "Status"], storage |-> st]
    ELSE IF a.status = 404
    THEN [result |-> [k |-> "Ok", v |-> None], storage |-> st]
    ELSE IF a.body = "Unparseable"
    THEN [result |-> [k |-> "Err", v |-> "json"], storage |-> st]
    ELSE IF a.body = "NotSuccess"
    THEN [result |-> Panicked("called Option::unwrap() on a None value"),
          storage |-> st]
    ELSE IF a.body = "NoEntry"
    THEN [result |-> [k |-> "Ok", v |-> None], storage |-> st]
    ELSE [result |-> [k |-> "Ok", v |-> Some(e)], storage |-> set_recipe_entry(st, e)]

\* The recipes, ingredients, categories and staples the calls are made
\* with.
RecipeIds == { <<"t", "o", "a", "s", "t">>, <<"s", "o", "u", "p">> }

RecipeTexts == { <<"x">>, <<"y">> }

Entries == { RecipeEntry(id, txt) : id \in RecipeIds, txt \in RecipeTexts }

IngredientNames == { <<"f", "l", "o", "u", "r">>, <<"s", "u", "g", "a", "r">> }

CategoryNames == { <<"b", "a", "k", "i", "n", "g">>, <<"d", "r", "y">> }

StapleTexts == { <<"s", "a", "l", "t">>, <<"r", "i", "c", "e">> }

\* The longest list of entries set_all_recipes is called with, and the
\* longest list of mappings set_categories is called with.
MaxEntries == 2

MaxMappings == 2

SeqsUpTo(S, n) == UNION { [1..m -> S] : m \in 0..n }

\* No call made yet.
NoCall == [op |-> "none", arg |-> <<>>, before |-> <<>>, result |-> Returned(None)]

\* The Editor before anything is typed.
EditorAtRest ==
    /\ text = <<>>
    /\ error_text = NoError
    /\ dialog_open = FALSE
    /\ parsed = NotCalled
    /\ overflow_checks = FALSE
    /\ family = "head"
    /\ stage = 0

StoreEmpty ==
    /\ storage = <<>>
    /\ last_call = NoCall

\* One call of a LocalStore method that returns nothing.
Stored(op, arg, st) ==
    /\ storage' = st
    /\ last_call' = [op |-> op, arg |-> arg, before |-> storage, result |-> Returned(None)]

SetStaples ==
    /\ \E content \in StapleTexts : Stored("set_staples", content, set_staples(storage, content))
    /\ UNCHANGED otherThanStore

SetRecipeEntry ==
    /\ \E e \in Entries : Stored("set_recipe_entry", e, set_recipe_entry(storage, e))
    /\ UNCHANGED otherThanStore

DeleteRecipeEntry ==
    /\ \E id \in RecipeIds : Stored("delete_recipe_entry", id, delete_recipe_entry(storage, id))
    /\ UNCHANGED otherThanStore

SetAllRecipes ==
    /\ \E entries \in SeqsUpTo(Entries, MaxEntries) :
          Stored("set_all_recipes", entries, set_all_recipes(storage, entries))
    /\ UNCHANGED otherThanStore

SetCategories ==
    /\ \E mappings \in {None} \cup { Some(m) : m \in SeqsUpTo(IngredientNames \X CategoryNames, MaxMappings) } :
          Stored("set_categories", mappings, set_categories(storage, mappings))
    /\ UNCHANGED otherThanStore

GetCategories ==
    /\ last_call' = [op |-> "get_categories", arg |-> <<>>, before |-> storage,
                     result |-> get_categories(storage)]
    /\ UNCHANGED storage
    /\ UNCHANGED otherThanStore

FetchRecipeText ==
    /\ \E id \in RecipeIds, a \in Answers, txt \in RecipeTexts :
          \E out \in {fetch_recipe_text(storage, id, a, RecipeEntry(id, txt))} :
              /\ storage' = out.storage
              /\ last_call' = [op |-> "fetch_recipe_text",
                               arg |-> [id |-> id, answer |-> a],
                               before |-> storage, result |-> out.result]
    /\ UNCHANGED otherThanStore

----------------------------------------------------------------------------
(* The server's v1 API (kitchen/src/web/mod.rs) and its auth handler       *)
(* (kitchen/src/web/auth.rs).  A request is served in one step; what the   *)
(* stores and the cookie library answer is an input of the step.           *)

UserIds == {"alice", "bob"}

\* The most sessions the session store holds.
MaxSessions == 2

NoUserId == [found |-> FALSE, id |-> ""]

FoundUserId(id) == [found |-> TRUE, id |-> id]

\* storage::UserIdFromSession: the user of the stored session the
\* request's cookie names, if there is one.
UserIdFromSession(stored, cookie) ==
    IF \E s \in stored : s.cookie = cookie
    THEN FoundUserId((CHOOSE s \in stored : s.cookie = cookie).user)
    ELSE NoUserId

\* The routes of mk_v1_routes registered before /auth, with their methods.
V1Routes ==
    { [route |-> "/recipes", method |-> "GET"],
      [route |-> "/recipes", method |-> "POST"],
      [route |-> "/recipe/:recipe_id", method |-> "GET"],
      [route |-> "/plan", method |-> "GET"],
      [route |-> "/plan", method |-> "POST"],
      [route |-> "/plan/:date", method |-> "GET"],
      [route |-> "/inventory", method |-> "GET"],
      [route |-> "/inventory", method |-> "POST"],
      [route |-> "/categories", method |-> "GET"],
      [route |-> "/categories", method |-> "POST"] }

NoAccess == [store |-> "none", op |-> "none", user |-> ""]

\* The handler of a v1 route: the store it calls, if any, and its answer.
\* api_recipes, api_recipe_entry and api_categories read the file store
\* when the session has no user id; every other handler answers
\* Unauthorized then.  store_ok is whether the store's call returned Ok.
v1_handler(r, session, store_ok) ==
    LET op == IF r.method = "GET" THEN "read" ELSE "write"
        answer == IF store_ok THEN "Success" ELSE "Error" IN
    IF session.found
    THEN [response |-> answer, access |-> [store |-> "app_store", op |-> op, user |-> session.id]]
    ELSE IF r.method = "GET" /\ r.route \in {"/recipes", "/recipe/:recipe_id", "/categories"}
    THEN [response |-> answer, access |-> [store |-> "file_store", op |-> op, user |-> ""]]
    ELSE [response |-> "Unauthorized", access |-> NoAccess]

\* What the calls of auth::handler can return.
AuthInputs ==
    [ check : {"Ok(true)", "Ok(false)", "Err"},
      insert : {"Ok", "Err"},
      store_session : {"Ok(Some)", "Ok(None)", "Err"},
      parse : {"Ok", "Err"} ]

\* An auth handler that puts the cookie in the headers as soon as the
\* session is stored.
handler_cookie_first(in) ==
    IF in.check # "Ok(true)"
    THEN [status |-> 401, set_cookie |-> FALSE, stored |-> FALSE]
    ELSE IF in.insert = "Err"
    THEN [status |-> 500, set_cookie |-> FALSE, stored |-> FALSE]
    ELSE IF in.store_session = "Err"
    THEN [status |-> 500, set_cookie |-> FALSE, stored |-> FALSE]
    ELSE IF in.store_session = "Ok(None)"
    THEN [status |-> 500, set_cookie |-> FALSE, stored |-> TRUE]
    ELSE IF in.parse = "Err"
    THEN [status |-> 500, set_cookie |-> TRUE, stored |-> TRUE]
    ELSE [status |-> 200, set_cookie |-> TRUE, stored |-> TRUE]

\* auth::handler: the status, whether the headers carry Set-Cookie, and
\* whether store_session stored the session.
handler(in) ==
    IF in.check # "Ok(true)"
    THEN [status |-> 401, set_cookie |-> FALSE, stored |-> FALSE]
    ELSE IF in.insert = "Err"
    THEN [status |-> 500, set_cookie |-> FALSE, stored |-> FALSE]
    ELSE IF in.store_session = "Err"
    THEN [status |-> 500, set_cookie |-> FALSE, stored |-> FALSE]
    ELSE IF in.store_session = "Ok(None)"
    THEN [status |-> 500, set_cookie |-> FALSE, stored |-> TRUE]
    ELSE IF in.parse = "Err"
    THEN [status |-> 500, set_cookie |-> FALSE, stored |-> TRUE]
    ELSE [status |-> 200, set_cookie |-> TRUE, stored |-> TRUE]

NoAuthInput == [check |-> "", insert |-> "", store_session |-> "", parse |-> ""]

\* No request served yet.
NothingServed ==
    [kind |-> "none", request |-> [route |-> "", method |-> ""], user |-> "",
     session |-> NoUserId, in |-> NoAuthInput,
     response |-> "", access |-> NoAccess, status |-> 0, set_cookie |-> FALSE,
     sessions_before |-> {}]

ServerIdle ==
    /\ sessions = {}
    /\ served = NothingServed

\* A request to a v1 route, with the cookie it carries (0: none).
ApiRequest ==
    /\ \E r \in V1Routes, cookie \in 0..MaxSessions, store_ok \in BOOLEAN :
          \E session \in {UserIdFromSession(sessions, cookie)} :
          \E out \in {v1_handler(r, session, store_ok)} :
              served' = [kind |-> "api", request |-> r, user |-> "",
                         session |-> session, in |-> NoAuthInput, response |-> out.response,
                         access |-> out.access, status |-> 0,
                         set_cookie |-> FALSE, sessions_before |-> sessions]
    /\ UNCHANGED sessions
    /\ UNCHANGED otherThanServer

\* A request to /auth with basic credentials.
AuthRequest ==
    /\ \E user \in UserIds, in \in AuthInputs :
          \E out \in {handler(in)} :
              /\ out.stored => Cardinality(sessions) < MaxSessions
              /\ sessions' = IF out.stored
                             THEN sessions \cup {[cookie |-> Cardinality(sessions) + 1,
                                                  user |-> user]}
                             ELSE sessions
              /\ served' = [kind |-> "auth",
                            request |-> [route |-> "/auth", method |-> "GET"],
                            user |-> user, session |-> NoUserId,
                            in |-> in, response |-> "", access |-> NoAccess,
                            status |-> out.status, set_cookie |-> out.set_cookie,
                            sessions_before |-> sessions]
    /\ UNCHANGED otherThanServer

----------------------------------------------------------------------------
(* The Editor, saving.  The save effect runs when the Save button triggers *)
(* save_signal; the request it sends is a future that completes later,     *)
(* while the user goes on editing.                                         *)

\* The documents the user puts in the textarea: two that parse, to
\* different recipes, and one that does not.
EditTexts ==
    { <<"t", "i", "t", "l", "e", ":", " ", "T", "o", "a", "s", "t", "\n", "\n", "\n">> \o StepTexts[1],
      <<"t", "i", "t", "l", "e", ":", " ", "T", "o", "a", "s", "t", "\n", "\n", "\n">> \o StepTexts[2],
      <<"t", "i", "t", "l", "e", ":", " ", "T", "o", "a", "s", "t">> }

\* How many save requests may be in flight at once.
MaxInFlight == 2

\* What the initial load of the Editor can end with: an error, no entry,
\* an entry with its text.
LoadAnswers ==
    {[k |-> "Err", v |-> None], [k |-> "Ok", v |-> None]}
        \cup {[k |-> "Ok", v |-> Some(t)] : t \in EditTexts}

\* The save effect without its test of dirty.
save_effect_always(is_dirty, flight, t) == Append(flight, t)

\* The save effect: nothing when dirty is false, else a request that
\* carries the text as it is now.
save_effect(is_dirty, flight, t) ==
    IF ~is_dirty THEN flight ELSE Append(flight, t)

\* The request at place n has left the flight.
Landed(flight, n) ==
    SubSeq(flight, 1, n - 1) \o SubSeq(flight, n + 1, Len(flight))

\* What one step of the Editor did to the signals of the save.
Logged(event, sent) ==
    [event |-> event, sent |-> sent, dirty_before |-> dirty,
     recipes_before |-> recipes, in_flight_before |-> in_flight]

SaveAtRest ==
    /\ dirty = FALSE
    /\ in_flight = <<>>
    /\ recipes = None
    /\ committed = None
    /\ edited = FALSE
    /\ load_pending = TRUE
    /\ last_saved = None
    /\ save_log = [event |-> "none", sent |-> <<>>, dirty_before |-> FALSE,
                   recipes_before |-> None, in_flight_before |-> <<>>]

\* The future spawned when the Editor is made: get_recipe_text, then the
\* text of the entry is put in the textarea.
LoadDone ==
    /\ load_pending
    /\ load_pending' = FALSE
    /\ \E a \in LoadAnswers :
          text' = IF a.k = "Ok" /\ a.v # None THEN a.v[1] ELSE text
    /\ save_log' = Logged("load", <<>>)
    /\ UNCHANGED <<dirty, in_flight, recipes, committed, edited, last_saved>>
    /\ UNCHANGED <<error_text, dialog_open, parsed, overflow_checks, family, stage>>
    /\ UNCHANGED otherThanEditorAndSave

\* The user replaces the content of the textarea (bind:value=text).
TextEdit ==
    /\ \E t \in EditTexts :
          /\ t # text
          /\ text' = t
    /\ edited' = TRUE
    /\ save_log' = Logged("edit", <<>>)
    /\ UNCHANGED <<dirty, in_flight, recipes, committed, load_pending, last_saved>>
    /\ UNCHANGED <<error_text, dialog_open, parsed, overflow_checks, family, stage>>
    /\ UNCHANGED otherThanEditorAndSave

\* The textarea's change event, which the browser fires once an edit is
\* committed.
Change ==
    /\ edited
    /\ edited' = FALSE
    /\ dirty' = TRUE
    /\ committed' = Some(text)
    /\ save_log' = Logged("change", <<>>)
    /\ UNCHANGED <<in_flight, recipes, load_pending, last_saved>>
    /\ UNCHANGED editorVars
    /\ UNCHANGED otherThanEditorAndSave

\* The user clicks Save: check_recipe_parses, and when it says yes the
\* save effect runs.
SaveClick ==
    /\ \E c \in {Call(text)} :
          /\ parsed' = c
          /\ check_recipe_parses(c)
          /\ \E flight \in {IF c.result.status = "Ok"
                            THEN save_effect(dirty, in_flight, text)
                            ELSE in_flight} :
                /\ Len(flight) <= MaxInFlight
                /\ in_flight' = flight
    /\ save_log' = Logged("save_click", <<>>)
    /\ UNCHANGED <<dirty, recipes, committed, edited, load_pending, last_saved>>
    /\ UNCHANGED <<text, overflow_checks, family, stage>>
    /\ UNCHANGED otherThanEditorAndSave

\* A save request comes back Ok: dirty is cleared, and the text as it is
\* now, when it parses, is put in the recipe map of the application.
SaveSucceeded ==
    /\ \E n \in 1..Len(in_flight) :
          /\ in_flight' = Landed(in_flight, n)
          /\ last_saved' = Some(in_flight[n])
          /\ save_log' = Logged("succeeded", in_flight[n])
    /\ dirty' = FALSE
    /\ \E r \in {as_recipe(text)} :
          recipes' = IF r.status = "Ok" THEN Some(r.recipe) ELSE recipes
    /\ UNCHANGED <<committed, edited, load_pending>>
    /\ UNCHANGED editorVars
    /\ UNCHANGED otherThanEditorAndSave

\* A save request comes back Err: the error is put in error_text.
SaveFailed ==
    /\ \E n \in 1..Len(in_flight) :
          /\ in_flight' = Landed(in_flight, n)
          /\ save_log' = Logged("failed", in_flight[n])
    /\ error_text' = [msg |-> "Failed to save recipe", detail |-> NoDetail]
    /\ UNCHANGED <<dirty, recipes, committed, edited, load_pending, last_saved>>
    /\ UNCHANGED <<text, dialog_open, parsed, overflow_checks, family, stage>>
    /\ UNCHANGED otherThanEditorAndSave

----------------------------------------------------------------------------
(* The local store and the server, each run on its own.                    *)

StoreInit == EditorAtRest /\ StoreEmpty /\ ServerIdle /\ SaveAtRest

StoreNext ==
    \/ SetStaples
    \/ SetRecipeEntry
    \/ DeleteRecipeEntry
    \/ SetAllRecipes
    \/ SetCategories
    \/ GetCategories
    \/ FetchRecipeText

StoreSpec == StoreInit /\ [][StoreNext]_vars

ServerInit == EditorAtRest /\ StoreEmpty /\ ServerIdle /\ SaveAtRest

ServerNext == ApiRequest \/ AuthRequest

ServerSpec == ServerInit /\ [][ServerNext]_vars

----------------------------------------------------------------------------
(* The Editor, typing and checking.                                        *)

Init ==
    /\ text = <<>>
    /\ error_text = NoError
    /\ dialog_open = FALSE
    /\ parsed = NotCalled
    /\ overflow_checks \in BOOLEAN
    /\ family \in Families
    /\ stage = 0
    /\ StoreEmpty
    /\ ServerIdle
    /\ SaveAtRest

\* The user types into the textarea (bind:value=text).
TextInput ==
    \E piece \in NextPieces(family, stage) :
        /\ text' = text \o piece
        /\ stage' = stage + 1
        /\ UNCHANGED <<error_text, dialog_open, parsed, overflow_checks, family>>
        /\ UNCHANGED otherThanEditor

\* The user clicks Check.
CheckClick ==
    /\ parsed.arg # text \/ parsed.outcome = "None"
    /\ parsed' = Call(text)
    /\ check_recipe_parses(parsed')
    /\ UNCHANGED <<text, overflow_checks, family, stage>>
    /\ UNCHANGED otherThanEditor

Next == TextInput \/ CheckClick

Spec == Init /\ [][Next]_vars

----------------------------------------------------------------------------
(* The Editor, editing and saving.                                         *)

SaveInit == EditorAtRest /\ StoreEmpty /\ ServerIdle /\ SaveAtRest

SaveNext ==
    \/ LoadDone
    \/ TextEdit
    \/ Change
    \/ CheckClick
    \/ SaveClick
    \/ SaveSucceeded
    \/ SaveFailed

SaveSpec == SaveInit /\ [][SaveNext]_vars

----------------------------------------------------------------------------
(* Properties of the parser, read off the last Check click: parsed.arg is  *)
(* the text as_recipe was given, parsed.outcome the variant the recipe     *)
(* rule ended with, parsed.result what as_recipe returned.                 *)

\* C1, as stated: as_recipe applied to
\* "title: Toast\n\nstep:\n1 cnt bread\n\nToast it.\n" returns Ok with title
\* "Toast", no description, exactly one step with no duration, exactly one
\* ingredient named "bread" with a Count measurement of quantity 1, and
\* instructions "Toast it.".
C1_MinimalDocumentAsStated ==
    parsed.arg = <<"t", "i", "t", "l", "e", ":", " ", "T", "o", "a", "s", "t", "\n", "\n", "s", "t", "e", "p", ":", "\n", "1", " ", "c", "n", "t", " ", "b", "r", "e", "a", "d", "\n", "\n", "T", "o", "a", "s", "t", " ", "i", "t", ".", "\n">> =>
        /\ parsed.result.status = "Ok"
        /\ parsed.result.recipe =
             RecipeNew(<<"T", "o", "a", "s", "t">>, None,
                 << StepNew(None, <<"T", "o", "a", "s", "t", " ", "i", "t", ".">>,
                        << IngredientNew(<<"b", "r", "e", "a", "d">>, None,
                               Tagged("Count", "Count", Whole(1))) >>) >>)

\* C1, amended: as_recipe applied to
\* "title: Toast\n\n\nstep:\n\n1 cnt bread\n\nToast it." (a blank line after
\* the title line, a blank line after `step:`, no final newline) returns Ok
\* with title "Toast", no description, exactly one step with no duration,
\* exactly one ingredient named "bread" with a Count measurement of quantity
\* 1, and instructions "Toast it."; applied to the text of the original
\* statement it returns the parse-failure error, the recipe rule having
\* aborted.
C1_MinimalDocument ==
    /\ parsed.arg = <<"t", "i", "t", "l", "e", ":", " ", "T", "o", "a", "s", "t", "\n", "\n", "\n", "s", "t", "e", "p", ":", "\n", "\n", "1", " ", "c", "n", "t", " ", "b", "r", "e", "a", "d", "\n", "\n", "T", "o", "a", "s", "t", " ", "i", "t", ".">> =>
        /\ parsed.result.status = "Ok"
        /\ parsed.result.recipe =
             RecipeNew(<<"T", "o", "a", "s", "t">>, None,
                 << StepNew(None, <<"T", "o", "a", "s", "t", " ", "i", "t", ".">>,
                        << IngredientNew(<<"b", "r", "e", "a", "d">>, None,
                               Tagged("Count", "Count", Whole(1))) >>) >>)
    /\ parsed.arg = <<"t", "i", "t", "l", "e", ":", " ", "T", "o", "a", "s", "t", "\n", "\n", "s", "t", "e", "p", ":", "\n", "1", " ", "c", "n", "t", " ", "b", "r", "e", "a", "d", "\n", "\n", "T", "o", "a", "s", "t", " ", "i", "t", ".", "\n">> =>
        /\ parsed.outcome = "Abort"
        /\ parsed.result.status = "Err"
        /\ parsed.result.msg = "Parse Failure: "

\* C1: Check has been clicked on the amended minimal document and it parsed.
C1_MinimalDocumentChecked ==
    /\ parsed.arg = <<"t", "i", "t", "l", "e", ":", " ", "T", "o", "a", "s", "t", "\n", "\n", "\n", "s", "t", "e", "p", ":", "\n", "\n", "1", " ", "c", "n", "t", " ", "b", "r", "e", "a", "d", "\n", "\n", "T", "o", "a", "s", "t", " ", "i", "t", ".">>
    /\ parsed.result.status = "Ok"
    /\ error_text = NoError

\* C2: for every document in which the title line is followed by a
\* paragraph separator and the next paragraph begins with `step:`, the
\* Recipe as_recipe yields has no description.
C2_StepParagraphIsNoDescription ==
    LET head == GoodHead \o StepHeader IN
    ( /\ parsed.result.status = "Ok"
      /\ Len(parsed.arg) >= Len(head)
      /\ SubSeq(parsed.arg, 1, Len(head)) = head )
    => parsed.result.recipe.desc = None

\* C3: for every step of a document whose `step:` header has been
\* recognized, as_recipe returns an error or a Recipe that holds the step:
\* when it returns Ok there are as many steps in the list as there are
\* recognized headers in the text.
C3_NoStepSilentlyOmitted ==
    parsed.result.status = "Ok" =>
        Len(parsed.result.recipe.steps) =
            Cardinality({q \in 1..Len(parsed.arg) :
                            IsComplete(step_prefix(parsed.arg, q))})

\* C4: where a step header has matched and what follows is no ingredient
\* line, the step rule ends with Abort, and so do the repetition of steps
\* and the step list run from there; when the step list of the document
\* reaches such a header, as first step or as a repeated one, the recipe
\* rule aborts and as_recipe returns an error.
C4_HeaderThenNoIngredientAborts ==
    LET s == parsed.arg
        first == Len(GoodHead) + 1
        NoIngredient(q) ==
            /\ IsComplete(step_prefix(s, q))
            /\ ingredient(s, step_prefix(s, q).p).k = "Fail"
        RECURSIVE Reached(_, _)
        Reached(c, q) ==
            \/ c = q
            \/ /\ c < q
               /\ IsComplete(step(s, c))
               /\ Reached(step(s, c).p, q)
    IN
    \A q \in 1..Len(s) :
        NoIngredient(q) =>
            /\ step(s, q).k = "Abort"
            /\ repeat_step(s, q, <<>>).k = "Abort"
            /\ step_list(s, q).k = "Abort"
            /\ ( /\ Len(s) >= first
                 /\ SubSeq(s, 1, Len(GoodHead)) = GoodHead
                 /\ IsComplete(step_prefix(s, first))
                 /\ Reached(first, q) )
               => /\ parsed.outcome = "Abort"
                  /\ parsed.result.status = "Err"

\* C4: Check has been clicked on a document whose second step has a header
\* followed by a line that is no ingredient, the first step being
\* well-formed, and the error dialog is shown.
C4_RepeatedStepAborted ==
    LET s == parsed.arg
        first == Len(GoodHead) + 1
    IN
    /\ Len(s) >= first
    /\ SubSeq(s, 1, Len(GoodHead)) = GoodHead
    /\ IsComplete(step(s, first))
    /\ IsComplete(step_prefix(s, step(s, first).p))
    /\ ingredient(s, step_prefix(s, step(s, first).p).p).k = "Fail"
    /\ parsed.outcome = "Abort"
    /\ dialog_open

\* C5: the failure value returned by as_recipe tells the failure kinds
\* apart: two calls whose recipe rule ended with different failure variants
\* (a Fail at the top level, an Abort in a text with a recognized `step:`
\* header, Incomplete) return different error messages.
C5_FailureKindsDistinguishable ==
    [][ ( /\ parsed.result.status = "Err"
          /\ parsed'.result.status = "Err"
          /\ parsed.outcome # parsed'.outcome
          /\ parsed.outcome = "Abort" =>
                \E q \in 1..Len(parsed.arg) : IsComplete(step_prefix(parsed.arg, q))
          /\ parsed'.outcome = "Abort" =>
                \E q \in 1..Len(parsed'.arg) : IsComplete(step_prefix(parsed'.arg, q)) )
        => parsed.result.msg # parsed'.result.msg ]_vars

\* C6: an ingredient line written with the longer alias of a unit parses to
\* the same canonical unit as the line written with the shorter alias, and
\* the name carries no leftover alias characters: the two lines give the
\* same Recipe, with the name as typed, trimmed and singular; `2 tbsps
\* sugar` gives Volume Tbsp with quantity 2 and name `sugar`.
C6_LongAliasSameUnit ==
    LET Doc(q, u, nm) == GoodHead \o OpenStep \o q \o <<" ">> \o u \o nm \o StepRest
        Pairs == { <<<<"t", "s", "p", "s">>, <<"t", "s", "p">>>>, <<<<"t", "b", "s", "p", "s">>, <<"t", "b", "s", "p">>>>,
                   <<<<"l", "b", "s">>, <<"l", "b">>>>, <<<<"c", "u", "p", "s">>, <<"c", "u", "p">>>>,
                   <<<<"q", "r", "t", "s">>, <<"q", "r", "t">>>>, <<<<"q", "u", "a", "r", "t", "s">>, <<"q", "u", "a", "r", "t">>>>,
                   <<<<"p", "i", "n", "t", "s">>, <<"p", "i", "n", "t">>>>, <<<<"g", "a", "l", "s">>, <<"g", "a", "l">>>>,
                   <<<<"k", "i", "l", "o", "g", "r", "a", "m", "s">>, <<"k", "i", "l", "o", "g", "r", "a", "m">>>>, <<<<"k", "i", "l", "o", "g", "r", "a", "m">>, <<"k", "g">>>>,
                   <<<<"g", "r", "a", "m", "s">>, <<"g", "r", "a", "m">>>>, <<<<"g", "r", "a", "m">>, <<"g">>>> }
        Names == { <<<<" ", "s", "u", "g", "a", "r">>, <<"s", "u", "g", "a", "r">>>>, <<<<" ", "e", "g", "g", "s">>, <<"e", "g", "g">>>> }
    IN
    /\ \A q \in QuantityTexts, pr \in Pairs, nm \in Names :
          parsed.arg = Doc(q, pr[1], nm[1]) =>
              /\ parsed.result.status = "Ok"
              /\ parsed.result = as_recipe(Doc(q, pr[2], nm[1]))
              /\ parsed.result.recipe.steps[1].ingredients[1].name = nm[2]
              /\ parsed.result.recipe.steps[1].ingredients[1].amt.kind
                    \in {"Volume", "Weight"}
    /\ parsed.arg = Doc(<<"2">>, <<"t", "b", "s", "p", "s">>, <<" ", "s", "u", "g", "a", "r">>) =>
          /\ parsed.result.status = "Ok"
          /\ parsed.result.recipe.steps[1].ingredients
                = << IngredientNew(<<"s", "u", "g", "a", "r">>, None,
                         Tagged("Volume", "Tbsp", Whole(2))) >>

\* C6: Check has been clicked on a step whose ingredient line is
\* `2 tbsps sugar`, and it parsed.
C6_TbspsChecked ==
    /\ parsed.arg = GoodHead \o OpenStep \o <<"2", " ", "t", "b", "s", "p", "s", " ", "s", "u", "g", "a", "r">> \o StepRest
    /\ parsed.result.status = "Ok"
    /\ parsed.result.recipe.steps[1].ingredients[1].amt.unit = "Tbsp"

\* C7: for a step header `step: <n> <unit>` followed by a paragraph
\* separator the duration in whole seconds is floor(n/1000) for `ms`, n for
\* `s`/`sec`, 60*n for `m`/`min` and 3600*n for `h`/`hr`/`hrs`, the longer
\* token winning over its prefix; a header without a duration gives none.
C7_DurationInSeconds ==
    LET Doc(c, sp, w) == GoodHead \o StepHeader \o c \o sp \o w \o StepBody
        Typed == { <<<<" ", "2">>, 2>>, <<<<" ", "1", "5", "0", "0">>, 1500>>, <<<<" ", "7", "1", "5", "8", "2", "7", "8", "9">>, 71582789>> }
        Words == {TimeTokens[i] : i \in DOMAIN TimeTokens}
        dur == parsed.result.recipe.steps[1].prep_time
    IN
    /\ \A c \in Typed, sp \in TimeSpaces, w \in Words :
          parsed.arg = Doc(c[1], sp, w) =>
              /\ parsed.result.status = "Ok"
              /\ dur # None
              /\ CASE w = <<"m", "s">> -> dur[1] = c[2] \div 1000
                   [] w \in {<<"s">>, <<"s", "e", "c">>} -> dur[1] = c[2]
                   [] w \in {<<"m">>, <<"m", "i", "n">>} ->
                        dur[1] % 60 = 0 /\ dur[1] \div 60 = c[2]
                   [] w \in {<<"h">>, <<"h", "r">>, <<"h", "r", "s">>} ->
                        dur[1] % 3600 = 0 /\ dur[1] \div 3600 = c[2]
    /\ parsed.arg = GoodHead \o StepHeader \o StepBody =>
          /\ parsed.result.status = "Ok"
          /\ dur = None

\* C8: every Recipe that as_recipe returns as Ok has at least one step, and
\* every step in it has at least one ingredient.
C8_StepsAndIngredientsNonEmpty ==
    parsed.result.status = "Ok" =>
        /\ Len(parsed.result.recipe.steps) >= 1
        /\ \A i \in DOMAIN parsed.result.recipe.steps :
              Len(parsed.result.recipe.steps[i].ingredients) >= 1

\* C8: Check has been clicked on a document of two steps, one of them with
\* two ingredient lines, and it parsed.
C8_TwoStepsChecked ==
    /\ parsed.result.status = "Ok"
    /\ Len(parsed.result.recipe.steps) = 2
    /\ \E i \in DOMAIN parsed.result.recipe.steps :
          Len(parsed.result.recipe.steps[i].ingredients) = 2

\* C9: for an ingredient line that starts with an integer w, whitespace and
\* a fraction n/d, d not 0, the parsed quantity is the exact sum w + n/d
\* (equal to (w*d + n)/d, compared by cross-multiplication); a bare n/d
\* gives Frac(n/d) and a bare w gives Whole(w); no character of the
\* fraction is left in the ingredient name.
C9_MixedNumberIsExactSum ==
    LET Doc(q, u, nm) == GoodHead \o OpenStep \o q \o u \o nm \o StepRest
        Typed == { [txt |-> <<"2">>, tag |-> "Whole", n |-> 2, d |-> 1],
                   [txt |-> <<"1", "/", "2">>, tag |-> "Frac", n |-> 1, d |-> 2],
                   [txt |-> <<"1", " ", "1", "/", "2">>, tag |-> "Frac", n |-> 1 * 2 + 1, d |-> 2],
                   [txt |-> <<"2", " ", "2", "/", "4">>, tag |-> "Frac", n |-> 2 * 4 + 2, d |-> 4],
                   [txt |-> <<"3", "\t", "1", "/", "3">>, tag |-> "Frac", n |-> 3 * 3 + 1, d |-> 3] }
        first == parsed.result.recipe.steps[1].ingredients[1]
    IN
    \A q \in Typed, u \in UnitWords, nm \in NameTexts :
        parsed.arg = Doc(q.txt, u, nm) =>
            /\ parsed.result.status = "Ok"
            /\ first.amt.qty.tag = q.tag
            /\ first.amt.qty.n * q.d = q.n * first.amt.qty.d
            /\ \A i \in DOMAIN first.name : first.name[i] \notin Digits \cup {"/"}

\* C9: Check has been clicked on a step whose ingredient line is
\* `1 1/2 cups sugar`, and the quantity is 3/2.
C9_MixedNumberChecked ==
    /\ parsed.arg = GoodHead \o OpenStep \o <<"1", " ", "1", "/", "2", " ", "c", "u", "p", "s", " ", "s", "u", "g", "a", "r">> \o StepRest
    /\ parsed.result.status = "Ok"
    /\ parsed.result.recipe.steps[1].ingredients[1].amt.qty = Frac([n |-> 3, d |-> 2])

\* C10: an ingredient line whose quantity is followed by a word that is not
\* in the unit vocabulary parses: the measurement is Count carrying the
\* quantity, no unit is consumed, and the name is the whole trimmed,
\* singular text up to the newline.
C10_UnknownWordIsCount ==
    LET Doc(u, nm) == GoodHead \o OpenStep \o <<"2">> \o u \o nm \o StepRest
        Typed == { [word |-> <<" ", "b", "i", "g">>, tail |-> <<" ", "s", "u", "g", "a", "r">>, name |-> <<"b", "i", "g", " ", "s", "u", "g", "a", "r">>],
                   [word |-> <<" ", "b", "i", "g">>, tail |-> <<" ", "e", "g", "g", "s">>, name |-> <<"b", "i", "g", " ", "e", "g", "g">>],
                   [word |-> <<" ", "g", "a", "r", "l", "i", "c">>, tail |-> <<" ", "s", "u", "g", "a", "r">>, name |-> <<"g", "a", "r", "l", "i", "c", " ", "s", "u", "g", "a", "r">>],
                   [word |-> <<" ", "g", "a", "r", "l", "i", "c">>, tail |-> <<" ", "e", "g", "g", "s">>, name |-> <<"g", "a", "r", "l", "i", "c", " ", "e", "g", "g">>] }
    IN
    \A t \in Typed :
        parsed.arg = Doc(t.word, t.tail) =>
            /\ parsed.result.status = "Ok"
            /\ parsed.result.recipe.steps[1].ingredients
                  = << IngredientNew(t.name, None, Tagged("Count", "Count", Whole(2))) >>

\* C11: an ingredient word that merely begins with a unit alias is not
\* split: for every quantity, a line whose first word after the quantity
\* is `garlic`, `cupcake` or `gallon` parses with a Count measurement and
\* the whole word sequence, trimmed and singular, as the name.
C11_AliasPrefixNotSplit ==
    LET Doc(q, u, nm) == GoodHead \o OpenStep \o q \o u \o nm \o StepRest
        Words == { <<" ", "g", "a", "r", "l", "i", "c">>, <<" ", "c", "u", "p", "c", "a", "k", "e">>, <<" ", "g", "a", "l", "l", "o", "n">> }
    IN
    \A q \in QuantityTexts, w \in Words, nm \in NameTexts :
        parsed.arg = Doc(q, w, nm) =>
            /\ parsed.result.status = "Ok"
            /\ parsed.result.recipe.steps[1].ingredients[1].amt.kind = "Count"
            /\ parsed.result.recipe.steps[1].ingredients[1].name
                  = to_singular(trim(w \o nm))

\* C12: unit tokens are matched whatever their case: for every quantity
\* and name, the lines written with `TBSP`, `Tbsp` and `tbsp` all parse to
\* Volume Tbsp with the same name, the name as typed, trimmed and singular.
C12_UnitCaseInsensitive ==
    LET Doc(q, u, nm) == GoodHead \o OpenStep \o q \o u \o nm \o StepRest
        Spellings == { <<" ", "T", "B", "S", "P">>, <<" ", "T", "b", "s", "p">>, <<" ", "t", "b", "s", "p">> }
    IN
    \A q \in QuantityTexts, sp \in Spellings, nm \in NameTexts :
        parsed.arg = Doc(q, sp, nm) =>
            /\ parsed.result.status = "Ok"
            /\ parsed.result = as_recipe(Doc(q, <<" ", "t", "b", "s", "p">>, nm))
            /\ parsed.result.recipe.steps[1].ingredients[1].amt.kind = "Volume"
            /\ parsed.result.recipe.steps[1].ingredients[1].amt.unit = "Tbsp"
            /\ parsed.result.recipe.steps[1].ingredients[1].name
                  = to_singular(trim(nm))

\* C13: a quantity followed by `cnt` or by `count` gives a Count
\* measurement with the token consumed as the unit: for every quantity and
\* name, both spellings give the same Recipe, whose ingredient has kind
\* Count and as its name the text after the token, trimmed and singular.
C13_CntAndCountAreCount ==
    LET Doc(q, u, nm) == GoodHead \o OpenStep \o q \o u \o nm \o StepRest
        Spellings == { <<" ", "c", "n", "t">>, <<" ", "c", "o", "u", "n", "t">> }
    IN
    \A q \in QuantityTexts, sp \in Spellings, nm \in NameTexts :
        parsed.arg = Doc(q, sp, nm) =>
            /\ parsed.result.status = "Ok"
            /\ parsed.result = as_recipe(Doc(q, <<" ", "c", "n", "t">>, nm))
            /\ parsed.result.recipe.steps[1].ingredients[1].amt.kind = "Count"
            /\ parsed.result.recipe.steps[1].ingredients[1].name
                  = to_singular(trim(nm))

\* C14: the unit vocabulary and the mapping tables are in sync: every
\* alternative of unit, lowercased and made singular, has an arm in
\* measure that gives a Volume, Weight or Count; every alternative of
\* step_time has a conversion arm; and no call of as_recipe ends in
\* unreachable!().
C14_VocabularyInSync ==
    /\ \A i \in DOMAIN UnitTokens :
          MeasureOf(to_singular(to_lowercase(UnitTokens[i])), Whole(1)).kind
              \in {"Volume", "Weight", "Count"}
    /\ \A i \in DOMAIN TimeTokens : TimeTokens[i] \in TimeArms
    /\ parsed.result.msg # "internal error: entered unreachable code"

\* C14: Check has been clicked on a step whose ingredient line is
\* `2 kilograms sugar`, a plural alias, and it parsed to Weight Kilogram.
C14_PluralAliasChecked ==
    /\ parsed.arg = GoodHead \o OpenStep \o <<"2", " ", "k", "i", "l", "o", "g", "r", "a", "m", "s", " ", "s", "u", "g", "a", "r">> \o StepRest
    /\ parsed.result.status = "Ok"
    /\ parsed.result.recipe.steps[1].ingredients[1].amt
          = Tagged("Weight", "Kilogram", Whole(2))

\* C15: a fraction with a zero denominator is no fault of the parser: on
\* every document in which `1/0` occurs, as_recipe returns a value, Ok or
\* Err, and does not panic.
C15_ZeroDenominatorReturns ==
    LET Zero == <<"1", "/", "0">>
        Occurs(s) == \E i \in 1..(Len(s) - Len(Zero) + 1) :
                         SubSeq(s, i, i + Len(Zero) - 1) = Zero
    IN
    (parsed.outcome # "None" /\ Occurs(parsed.arg)) =>
        parsed.result.status \in {"Ok", "Err"}

\* C16: numeric conversion never faults and never wraps: on a step header
\* whose duration count is 2^32, or whose count is 71582789 with a minute
\* or hour unit, as_recipe returns a value, Ok or Err, and when it is Ok
\* the step's duration is the exact number of seconds.
C16_NoFaultNoWrap ==
    LET Doc(c, sp, w) == GoodHead \o StepHeader \o c \o sp \o w \o StepBody
        Big == <<" ", "7", "1", "5", "8", "2", "7", "8", "9">>
        Typed == { [count |-> <<" ", "4", "2", "9", "4", "9", "6", "7", "2", "9", "6">>, word |-> <<"s">>, per |-> 1],
                   [count |-> <<" ", "4", "2", "9", "4", "9", "6", "7", "2", "9", "6">>, word |-> <<"m", "i", "n">>, per |-> 60],
                   [count |-> Big, word |-> <<"m", "i", "n">>, per |-> 60],
                   [count |-> Big, word |-> <<"m">>, per |-> 60],
                   [count |-> Big, word |-> <<"h", "r", "s">>, per |-> 3600],
                   [count |-> Big, word |-> <<"h", "r">>, per |-> 3600],
                   [count |-> Big, word |-> <<"h">>, per |-> 3600] }
    IN
    \A t \in Typed, sp \in TimeSpaces :
        parsed.arg = Doc(t.count, sp, t.word) =>
            /\ parsed.result.status \in {"Ok", "Err"}
            /\ parsed.result.status = "Ok" =>
                  \E d \in {parsed.result.recipe.steps[1].prep_time} :
                      /\ d # None
                      /\ d[1] % t.per = 0
                      /\ DecimalValue(StripZeros(Tail(t.count))) = d[1] \div t.per

\* C17: as_recipe terminates: at every cursor of the text it was called
\* on, a repeated item that Completes (a step; a newline and an ingredient
\* line) ends after the cursor it started at; a whitespace run and a digit
\* run end at or after their start and within the text; the scans of
\* title, description, ingredient name and modifier end at or after their
\* start and at most one past the last character; and the call itself has
\* ended, with Ok, Err or a panic.
C17_RepetitionsAdvance ==
    LET s == parsed.arg
        Within(q, r) == q <= r.p /\ r.p <= Len(s) + 1
    IN
    /\ parsed.outcome # "None" => parsed.result.status \in {"Ok", "Err", "Panic"}
    /\ \A q \in 1..(Len(s) + 1) :
          /\ \E r \in {step(s, q)} : IsComplete(r) => q < r.p /\ Within(q, r)
          /\ \E r \in {sep_ingredient(s, q)} :
                IsComplete(r) => q < r.p /\ Within(q, r)
          /\ Within(q, ws(s, q))
          /\ Within(q, consume_all(Digits, s, q))
          /\ \E r \in {title(s, q)} : r.k \in {"Complete", "Incomplete"} => Within(q, r)
          /\ Within(q, description(s, q))
          /\ Within(q, ingredient_name(s, q))
          /\ \E r \in {ingredient_modifier(s, q)} :
                r.k \in {"Complete", "Incomplete"} => Within(q, r)

\* C17: Check has been clicked on a document of two steps with two
\* ingredient lines each, so that every repetition ran more than once, and
\* the call returned Ok.
C17_RepetitionsRan ==
    /\ parsed.arg = GoodHead \o StepTexts[2] \o BlankLine \o StepTexts[2]
    /\ parsed.result.status = "Ok"
    /\ Len(parsed.result.recipe.steps) = 2
    /\ \A i \in 1..2 : Len(parsed.result.recipe.steps[i].ingredients) = 2

C19_StepsAndIngredientsInOrder ==
    LET Bread == IngredientNew(<<"b", "r", "e", "a", "d">>, None, Tagged("Count", "Count", Whole(1)))
        Sugar == IngredientNew(<<"s", "u", "g", "a", "r">>, Some(<<"f", "i", "n", "e">>), Tagged("Volume", "Tbsp", Whole(2)))
        Expected == << StepNew(None, <<"T", "o", "a", "s", "t", " ", "i", "t", ".">>, <<Bread>>),
                       StepNew(Some(120), <<"M", "i", "x", ".">>, <<Bread, Sugar>>) >>
        RECURSIVE Doc(_, _)
        Doc(c, i) == IF i > Len(c) THEN <<>>
                     ELSE (IF i = 1 THEN GoodHead ELSE BlankLine)
                          \o StepTexts[c[i]] \o Doc(c, i + 1)
    IN
    \A k \in 1..MaxSteps : \A c \in [1..k -> {1, 2}] :
        parsed.arg = Doc(c, 1) =>
            /\ parsed.result.status = "Ok"
            /\ parsed.result.recipe.steps = [i \in 1..k |-> Expected[c[i]]]

\* C19: Check has been clicked on the document whose first step has one
\* ingredient line and whose second step has two, and it parsed to two
\* steps with one and two ingredients.
C19_OneThenTwoChecked ==
    /\ parsed.arg = GoodHead \o StepTexts[1] \o BlankLine \o StepTexts[2]
    /\ parsed.result.status = "Ok"
    /\ Len(parsed.result.recipe.steps) = 2
    /\ Len(parsed.result.recipe.steps[1].ingredients) = 1
    /\ Len(parsed.result.recipe.steps[2].ingredients) = 2

\* C20: a document made of the title line, a blank line, a free-text
\* paragraph, a blank line and the step list parses, and its description
\* is exactly the paragraph: for the title line `title: Toast`, followed by
\* one or by two empty lines, the paragraph `About it.`, a blank line and
\* one well-formed step, the result is Ok with description `About it.`.
C20_DescriptionIsTheParagraph ==
    LET Doc(gap, closing) == <<"t", "i", "t", "l", "e", ":", " ", "T", "o", "a", "s", "t", "\n">> \o gap \o <<"A", "b", "o", "u", "t", " ", "i", "t", ".", "\n", "\n">> \o closing
        Blank == { <<"\n">>, <<"\n", "\n">> }
        Steps == { <<"s", "t", "e", "p", ":", "\n", "\n", "1", " ", "c", "n", "t", " ", "b", "r", "e", "a", "d", "\n", "\n", "T", "o", "a", "s", "t", " ", "i", "t", ".">>,
                   <<"s", "t", "e", "p", ":", "\n", "\n", "1", " ", "c", "n", "t", " ", "b", "r", "e", "a", "d", "\n", "\n", "T", "o", "a", "s", "t", " ", "i", "t", ".", "\n">> }
    IN
    \A gap \in Blank, closing \in Steps :
        parsed.arg = Doc(gap, closing) =>
            /\ parsed.result.status = "Ok"
            /\ parsed.result.recipe.desc = Some(<<"A", "b", "o", "u", "t", " ", "i", "t", ".">>)

\* C21: after set_all_recipes(entries) the keys with the prefix `recipe:`
\* are exactly the keys of the ids in entries, each holding the serialized
\* entry with that id (the last one in the list, when an id occurs twice),
\* whatever recipe keys existed before; every other key is as it was.
C21_SetAllRecipesReplaces ==
    LET entries == last_call.arg
        before == last_call.before
        IsRecipeKey(k) == starts_with(k, RecipePrefix)
        LastWith(k) == CHOOSE n \in DOMAIN entries :
                           /\ recipe_key(entries[n].id) = k
                           /\ \A m \in DOMAIN entries :
                                 recipe_key(entries[m].id) = k => m <= n
    IN
    last_call.op = "set_all_recipes" =>
        /\ {k \in DOMAIN storage : IsRecipeKey(k)}
              = {recipe_key(entries[n].id) : n \in DOMAIN entries}
        /\ \A k \in DOMAIN storage :
              IsRecipeKey(k) => storage[k] = to_string_entry(entries[LastWith(k)])
        /\ {k \in DOMAIN storage : ~IsRecipeKey(k)}
              = {k \in DOMAIN before : ~IsRecipeKey(k)}
        /\ \A k \in DOMAIN before : ~IsRecipeKey(k) => storage[k] = before[k]

\* C21: set_all_recipes has been called with the one entry for `toast` on
\* a store that held a recipe for `soup`, a category key and the staples;
\* the `soup` key is gone.
C21_OldRecipeDeleted ==
    /\ last_call.op = "set_all_recipes"
    /\ Len(last_call.arg) = 1
    /\ last_call.arg[1].id = <<"t", "o", "a", "s", "t">>
    /\ recipe_key(<<"s", "o", "u", "p">>) \in DOMAIN last_call.before
    /\ category_key(<<"f", "l", "o", "u", "r">>) \in DOMAIN last_call.before
    /\ StaplesKey \in DOMAIN last_call.before
    /\ recipe_key(<<"s", "o", "u", "p">>) \notin DOMAIN storage
    /\ category_key(<<"f", "l", "o", "u", "r">>) \in DOMAIN storage

\* C28: fetch_recipe_text returns Ok(None) when the server answers 404,
\* Err for every other status that is not 200, and for a 200 answer that
\* holds an entry (or none) returns it, having stored the entry in the
\* local store; when the request fails with a JS error it returns the
\* local store's entry for the id.
C28_FetchRecipeTextByStatus ==
    LET a == last_call.arg.answer
        id == last_call.arg.id
        r == last_call.result
        local == get_recipe_entry(last_call.before, id)
    IN
    last_call.op = "fetch_recipe_text" =>
        /\ (a.kind = "Answer" /\ a.status = 404) => (r.k = "Ok" /\ r.v = None)
        /\ (a.kind = "Answer" /\ a.status \notin {200, 404}) => r.k = "Err"
        /\ (a.kind = "Answer" /\ a.status = 200 /\ a.body = "NoEntry") =>
              (r.k = "Ok" /\ r.v = None)
        /\ (a.kind = "Answer" /\ a.status = 200 /\ a.body = "Entry") =>
              /\ r.k = "Ok"
              /\ r.v # None
              /\ r.v[1].id = id
              /\ storage = set_recipe_entry(last_call.before, r.v[1])
        /\ (a.kind = "JsError" /\ local.k = "Returned") => (r.k = "Ok" /\ r.v = local.v)

\* C29: category storage round-trips: right after set_categories(Some(m)),
\* for a non-empty list m of pairs with distinct ingredients, on a store
\* that held no category key, get_categories returns Some of the pairs of
\* m; and every value under a `category:` key reads back as get_categories
\* reads it.
C29_CategoriesRoundTrip ==
    LET m == last_call.arg[1]
        Distinct == \A i, j \in DOMAIN m : m[i][1] = m[j][1] => i = j
    IN
    /\ \A k \in get_category_keys(storage) : from_str_pairs(storage[k]).ok
    /\ ( /\ last_call.op = "set_categories"
         /\ last_call.arg # None
         /\ get_category_keys(last_call.before) = {} ) =>
           ( (m # <<>> /\ Distinct) =>
                 get_categories(storage) = Returned(Some({m[n] : n \in DOMAIN m})) )

\* C22: every v1 route registered before /auth requires a user id: a
\* request whose session carries no user id is answered Unauthorized and
\* makes no read and no write of a store.
C22_NoUserIdIsUnauthorized ==
    (served.kind = "api" /\ served.request \in V1Routes /\ ~served.session.found) =>
        /\ served.response = "Unauthorized"
        /\ served.access = NoAccess

\* C27: the answer of the auth handler carries Set-Cookie exactly when its
\* status is 200, which happens only when check_user_creds returned
\* Ok(true) and store_session returned a cookie value; when the
\* credentials are rejected or the check errs the answer is 401 without
\* Set-Cookie and no session is stored; when the session cannot be built
\* or stored, or the cookie cannot be made, the answer is 500 without
\* Set-Cookie.
C27_SetCookieOnlyWithOk ==
    served.kind = "auth" =>
        /\ served.set_cookie <=> served.status = 200
        /\ served.status = 200 =>
              /\ served.in.check = "Ok(true)"
              /\ served.in.store_session = "Ok(Some)"
        /\ served.in.check # "Ok(true)" =>
              /\ served.status = 401
              /\ ~served.set_cookie
              /\ sessions = served.sessions_before
        /\ ( /\ served.in.check = "Ok(true)"
             /\ \/ served.in.insert = "Err"
                \/ served.in.store_session # "Ok(Some)"
                \/ served.in.parse = "Err" ) =>
              /\ served.status = 500
              /\ ~served.set_cookie

\* C27: a second login has been answered 200 with Set-Cookie, and its
\* session is in the session store beside the first.
C27_LoginAnswered ==
    /\ served.kind = "auth"
    /\ served.status = 200
    /\ served.set_cookie
    /\ Cardinality(served.sessions_before) = 1
    /\ Cardinality(sessions) = 2

\* C23: when as_recipe returns Ok the recipe rule has consumed the whole
\* input: the rule ends at the end of the text, so nothing is left over,
\* in particular no trailing paragraph that begins with `step:`.
C23_OkConsumesWholeInput ==
    parsed.result.status = "Ok" =>
        recipe(parsed.arg, 1).p = Len(parsed.arg) + 1

\* C24: whenever no save request is in flight, and the last edit of the
\* textarea has had its change event, and the text is not the text of the
\* last successful save, dirty is true: a change event that came while a
\* request was in flight is still there when the request ends, so that the
\* next Save click sends the newer text.
C24_ChangeSurvivesSave ==
    ( /\ in_flight = <<>>
      /\ ~edited
      /\ committed = Some(text)
      /\ last_saved # Some(text) ) => dirty

\* C25: a save request is sent only by a Save click on a text that parses
\* while dirty is true, and it carries that text; a Check click, a Save
\* click on a text that does not parse and a Save click while dirty is
\* false send nothing; dirty is cleared and the recipe map is changed only
\* when a save request has succeeded; a failed save leaves both as they
\* were.
C25_SaveSentAndAppliedOnlyWhenDue ==
    /\ in_flight # save_log.in_flight_before =>
          \/ /\ save_log.event = "save_click"
             /\ parsed.arg = text
             /\ parsed.result.status = "Ok"
             /\ save_log.dirty_before
             /\ in_flight = Append(save_log.in_flight_before, text)
          \/ /\ save_log.event \in {"succeeded", "failed"}
             /\ Len(in_flight) = Len(save_log.in_flight_before) - 1
    /\ ( /\ save_log.event = "save_click"
         /\ parsed.result.status # "Ok" \/ ~save_log.dirty_before ) =>
          in_flight = save_log.in_flight_before
    /\ ( \/ save_log.dirty_before /\ ~dirty
         \/ recipes # save_log.recipes_before ) =>
          save_log.event = "succeeded"
    /\ save_log.event = "failed" =>
          /\ dirty = save_log.dirty_before
          /\ recipes = save_log.recipes_before

\* C25: a Save click on a parsing text with dirty true has sent a request
\* that carries the text while another was in flight.
C25_SecondRequestSent ==
    /\ save_log.event = "save_click"
    /\ save_log.dirty_before
    /\ Len(save_log.in_flight_before) = 1
    /\ in_flight = Append(save_log.in_flight_before, text)

\* C26: after a save request has succeeded, the recipe held in the recipe
\* map is the parse of the text that request carried.
C26_MapHoldsWhatWasSaved ==
    save_log.event = "succeeded" =>
        recipes = Some(as_recipe(save_log.sent).recipe)

====
